---- MODULE Spec2Model ----
(***************************************************************************)
(* Models of the virtual-memory simulators of OS_notes.                    *)
(*                                                                         *)
(* Part I   page_swapping_simulate.cpp : RAM, Disk, SwapSpace, MMU with    *)
(*          LRU eviction, and the VirtualMemorySystem calls on top of it.  *)
(* Part II  page_table_directory.cpp   : two-level page tables kept in     *)
(*          simulated physical memory, one directory per process.          *)
(* Part III allocvm_and_loadvm_sim.cpp : walkpgdir / mappages / allocuvm.  *)
(* Part IV  mmap.cpp                   : RAM, Disk and MMU without swap.   *)
(*                                                                         *)
(* A page's 4096 bytes are moved as one unit by every read_page/write_page *)
(* (memcpy of PAGE_SIZE), so Part I keeps one value per page: 0 is the     *)
(* zero-filled page, 1..MaxVal are the data a caller writes.               *)
(***************************************************************************)
EXTENDS Integers, Sequences, FiniteSets, TLC

(***************************************************************************)
(* Bounds of the model.  RAM, swap and disk are scaled down from the 8     *)
(* frames, 32 slots and 64 disk pages of the source so that memory         *)
(* pressure and swap exhaustion happen within a few calls.                 *)
(***************************************************************************)
RamFrames == 2
SwapSlots == 1
DiskPages == 1
MaxVal    == 1
\* Spec : virtual pages the mmap cursor may hand out, and the last clock value
MaxPages  == 3
MaxTime   == 7
\* SpecAnon : the same for the runs with one anonymous region
AnonPages == 4
AnonTime  == 10
\* SpecWrite : the same for the runs with writes of more than one byte
WritePages == 3
WriteTime  == 4
\* SpecSwap : the same for the runs in which evicted pages are accessed again
SwapPages == 3
SwapTime  == 8
\* SpecUnmap : the same for the runs of either manager that unmap ranges with
\* unmapped pages in them
UnmapPages == 3
UnmapTime  == 6
\* SpecMMU : the pages the direct MMU calls name, and the last clock value
MmuPages  == 2
MmuTime   == 5
\* SpecDir : the process ids, and the pages PhysicalMemory may hand out
MaxPids   == 2
DirPages  == 6
\* SpecLoad : the pages kalloc may hand out
LoadPages == 4
\* SpecBasic : the frames (16 in mmap.cpp), the disk pages (64 in mmap.cpp) and
\* the virtual pages the mmap cursor may hand out
BasicFrames    == 2
BasicDiskPages == 2
BasicPages     == 3
\* SpecBoth : the virtual pages either mmap cursor may hand out, and the last
\* clock value of the swapping manager
BothPages == 2
BothTime  == 3
\* the kernel calls of one exec that can fail: the numbers env.fail ranges over
ExecCalls == 10

(***************************************************************************)
(* Part I : page_swapping_simulate.cpp                                     *)
(***************************************************************************)
PAGE_SIZE == 4096
RAM_SIZE  == RamFrames * PAGE_SIZE
DISK_SIZE == DiskPages * PAGE_SIZE
SWAP_SIZE == SwapSlots * PAGE_SIZE

\* (pfn_t)-1 and (swap_slot_t)-1, i.e. 0xFFFFFFFF : what allocate_page,
\* allocate_slot, find_lru_page and evict_page return for "none".  The value is
\* kept as -1 and compared as the unsigned number it is with ULess.  Every other
\* page number and address of Part I stays far below 2^31, so the truncations
\* to vpn_t / pfn_t (uint32_t) are the identity and are not written.
MinusOne   == -1
\* a null PageMetadata* in frame_to_page (entries are referred to by their key)
nullptr    == -1
\* VirtualMemorySystem::next_virtual_addr at construction (0x10000000)
FirstAddr  == 268435456

Data   == 0 .. MaxVal
Values == 1 .. MaxVal
Frames == 0 .. (RAM_SIZE \div PAGE_SIZE) - 1
Slots  == 0 .. (SWAP_SIZE \div PAGE_SIZE) - 1
DiskPageIds == 0 .. (DISK_SIZE \div PAGE_SIZE) - 1

\* a < b for an unsigned a that may be MinusOne
ULess(a, b) == a >= 0 /\ a < b

Min(S) == CHOOSE x \in S : \A y \in S : x <= y

VARIABLES
    memory,            \* RAM::memory, one value per frame
    frame_to_page,     \* RAM::frame_to_page, the key of the entry or nullptr
    allocated,         \* RAM::allocated
    swap_storage,      \* SwapSpace::swap_storage, one value per slot
    allocated_slots,   \* SwapSpace::allocated_slots
    storage,           \* Disk::storage, one value per disk page
    page_table,        \* MMU::page_table : vpn -> PageMetadata
    current_time,      \* MMU::current_time
    next_virtual_addr, \* VirtualMemorySystem::next_virtual_addr
    ev,                \* the last call: its arguments, result and the store/allocator calls it made
    shadow,            \* history: vpn -> the data last written to it since it was mapped
    written,           \* history: the vpns written since they were last loaded into a frame
    wrote,             \* history: whether a write_memory has succeeded
    \* Part II
    phys_mem,          \* the PhysicalMemory object: its pages and next_free_page
    processes,         \* ProcessManager::processes : pid -> PageTableManager
    current_pid,       \* ProcessManager::current_pid
    dev,               \* the last call of Part II and its result
    \* Part III
    ram,               \* the PhysicalMemory object: its pages and next_free_page
    page_directory_phys, \* PageTableManager::page_directory_phys
    lev,               \* the last call of Part III and its result
    \* Part IV
    mm_memory,         \* RAM::memory of mmap.cpp, one value per frame
    mm_allocated,      \* RAM::allocated
    mm_storage,        \* Disk::storage, one value per disk page
    mm_page_table,     \* MMU::page_table : vpn -> PageTableEntry
    mm_next_virtual_addr, \* VirtualMemorySystem::next_virtual_addr
    mev,               \* the last call of Part IV, its result and the calls it made
    mm_written,        \* history: the vpns a write_memory has written
    \* Part V
    curproc,           \* the struct proc of the caller of exec: pgdir, sz, tf->eip, tf->esp, name
    kpgdirs,           \* the page directories setupkvm has made and freevm has not freed
    xev                \* the last call of exec: its arguments, result and the kernel calls it made

swapVars == <<memory, frame_to_page, allocated, swap_storage, allocated_slots,
              storage, page_table, current_time, next_virtual_addr, ev, shadow, written, wrote>>
dirVars  == <<phys_mem, processes, current_pid, dev>>
loadVars == <<ram, page_directory_phys, lev>>
basicVars == <<mm_memory, mm_allocated, mm_storage, mm_page_table,
               mm_next_virtual_addr, mev, mm_written>>
execVars == <<curproc, kpgdirs, xev>>
vars     == <<swapVars, dirVars, loadVars, basicVars, execVars>>

\* PageMetadata::PageMetadata()
PageMetadata ==
    [present |-> FALSE, dirty |-> FALSE, accessed |-> FALSE, file_backed |-> FALSE,
     swapped |-> FALSE, physical_page |-> 0, disk_page |-> 0, swap_slot |-> 0,
     last_access |-> 0, virtual_page |-> 0]

(***************************************************************************)
(* The methods below are functions of a record s holding the objects'      *)
(* fields during one call, plus                                            *)
(*   s.ret : the numeric value the method returns,                         *)
(*   s.ok  : the bool it returns,                                          *)
(*   s.log : the store and allocator calls made so far, in order.          *)
(*   s.undef : whether an uninitialised buffer was copied into a frame.    *)
(* junk is the content of an uninitialised `char buffer[PAGE_SIZE]`: a     *)
(* read_page whose page number is out of range leaves the buffer as it is. *)
(***************************************************************************)
Cur ==
    [memory |-> memory, frame_to_page |-> frame_to_page, allocated |-> allocated,
     swap_storage |-> swap_storage, allocated_slots |-> allocated_slots,
     storage |-> storage, page_table |-> page_table, current_time |-> current_time,
     ret |-> 0, ok |-> TRUE, log |-> << >>, undef |-> FALSE]

Logged(s, c, a) == [s EXCEPT !.log = Append(@, [call |-> c, arg |-> a])]

\* ---- SwapSpace ----
SwapSpace_allocate_slot(s) ==
    LET free == {i \in Slots : ~s.allocated_slots[i]}
    IN  IF free = {}
        THEN [Logged(s, "SwapSpace::allocate_slot", MinusOne) EXCEPT !.ret = MinusOne]
        ELSE [Logged(s, "SwapSpace::allocate_slot", Min(free))
                 EXCEPT !.allocated_slots[Min(free)] = TRUE, !.ret = Min(free)]

SwapSpace_free_slot(s, slot) ==
    IF ULess(slot, SWAP_SIZE \div PAGE_SIZE)
    THEN [Logged(s, "SwapSpace::free_slot", slot) EXCEPT !.allocated_slots[slot] = FALSE]
    ELSE Logged(s, "SwapSpace::free_slot", slot)

SwapSpace_write_page(s, slot, data) ==
    IF ULess(slot, SWAP_SIZE \div PAGE_SIZE)
    THEN [Logged(s, "SwapSpace::write_page", slot) EXCEPT !.swap_storage[slot] = data]
    ELSE Logged(s, "SwapSpace::write_page", slot)

\* the buffer after the call: untouched when the slot is out of range
SwapSpace_read_page(s, slot, buffer) ==
    IF ULess(slot, SWAP_SIZE \div PAGE_SIZE) THEN s.swap_storage[slot] ELSE buffer

\* ---- Disk ----
\* offset + PAGE_SIZE <= DISK_SIZE for offset = page_num * PAGE_SIZE
DiskInRange(page_num) == page_num >= 0 /\ page_num * PAGE_SIZE + PAGE_SIZE <= DISK_SIZE

\* the buffer after the call: untouched when the page is out of range
Disk_read_page(s, page_num, buffer) ==
    IF DiskInRange(page_num) THEN s.storage[page_num] ELSE buffer

Disk_write_page(s, page_num, buffer) ==
    IF DiskInRange(page_num)
    THEN [Logged(s, "Disk::write_page", page_num) EXCEPT !.storage[page_num] = buffer]
    ELSE Logged(s, "Disk::write_page", page_num)

\* ---- RAM ----
\* allocate_page without `allocated[i] = true`
allocate_page_unmarked(s, page_meta) ==
    LET free == {i \in Frames : ~s.allocated[i]}
    IN  IF free = {}
        THEN [s EXCEPT !.ret = MinusOne]
        ELSE [Logged(s, "RAM::allocate_page", Min(free))
                 EXCEPT !.frame_to_page[Min(free)] = page_meta,
                        !.ret = Min(free)]

RAM_allocate_page(s, page_meta) ==
    LET free == {i \in Frames : ~s.allocated[i]}
    IN  IF free = {}
        THEN [s EXCEPT !.ret = MinusOne]
        ELSE [Logged(s, "RAM::allocate_page", Min(free))
                 EXCEPT !.allocated[Min(free)] = TRUE,
                        !.frame_to_page[Min(free)] = page_meta,
                        !.ret = Min(free)]

RAM_free_page(s, page_num) ==
    IF ULess(page_num, RAM_SIZE \div PAGE_SIZE)
    THEN [Logged(s, "RAM::free_page", page_num)
             EXCEPT !.allocated[page_num] = FALSE, !.frame_to_page[page_num] = nullptr]
    ELSE s

RAM_read_page(s, page_num, buffer) ==
    IF ULess(page_num, RAM_SIZE \div PAGE_SIZE) THEN s.memory[page_num] ELSE buffer

RAM_write_page(s, page_num, buffer) ==
    IF ULess(page_num, RAM_SIZE \div PAGE_SIZE)
    THEN [s EXCEPT !.memory[page_num] = buffer]
    ELSE s

\* get_page_metadata that finds no metadata
get_page_metadata_none(s, frame_num) == nullptr

RAM_get_page_metadata(s, frame_num) ==
    IF ULess(frame_num, RAM_SIZE \div PAGE_SIZE) THEN s.frame_to_page[frame_num] ELSE nullptr

\* the frames find_lru_page compares: allocated and with metadata (last_access
\* is a uint64_t far below the UINT64_MAX that oldest_time starts from)
LruCandidates(s) ==
    {i \in Frames : /\ s.allocated[i]
                    /\ s.frame_to_page[i] # nullptr
                    /\ s.frame_to_page[i] \in DOMAIN s.page_table}

LastAccessOf(s, i) == s.page_table[s.frame_to_page[i]].last_access

find_mru_page(s) ==
    IF LruCandidates(s) = {} THEN MinusOne
    ELSE CHOOSE i \in LruCandidates(s) :
            \A j \in LruCandidates(s) :
                \/ LastAccessOf(s, i) > LastAccessOf(s, j)
                \/ (LastAccessOf(s, i) = LastAccessOf(s, j) /\ i <= j)

\* strict < in an ascending scan: the smallest last_access, the lowest frame on a tie
find_lru_page(s) ==
    IF LruCandidates(s) = {} THEN MinusOne
    ELSE CHOOSE i \in LruCandidates(s) :
            \A j \in LruCandidates(s) :
                \/ LastAccessOf(s, i) < LastAccessOf(s, j)
                \/ (LastAccessOf(s, i) = LastAccessOf(s, j) /\ i <= j)

\* ---- MMU ----
\* (Each method is split where it binds an intermediate result, so that the
\*  result is an operator argument.)

\* evict_page lines 247-251 / 255-259: take a slot unless the entry has one,
\* then write the frame's content to the entry's slot
take_slot(a, vm) ==
    [a EXCEPT !.page_table[vm].swap_slot = a.ret, !.page_table[vm].swapped = TRUE]

write_to_slot(s, vm, buffer) ==
    SwapSpace_write_page(s, s.page_table[vm].swap_slot, buffer)

swap_out(s, vm, buffer) ==
    IF ~s.page_table[vm].swapped
    THEN write_to_slot(take_slot(SwapSpace_allocate_slot(s), vm), vm, buffer)
    ELSE write_to_slot(s, vm, buffer)

\* evict_write_back without the test of the dirty flag
evict_write_back_always(s, vm, victim_frame, junk) ==
    IF s.page_table[vm].file_backed
    THEN Disk_write_page(s, s.page_table[vm].disk_page, RAM_read_page(s, victim_frame, junk))
    ELSE swap_out(s, vm, RAM_read_page(s, victim_frame, junk))

\* evict_write_back without the test of file_backed for a clean page
evict_write_back_clean_files(s, vm, victim_frame, junk) ==
    IF s.page_table[vm].dirty
    THEN IF s.page_table[vm].file_backed
         THEN Disk_write_page(s, s.page_table[vm].disk_page,
                              RAM_read_page(s, victim_frame, junk))
         ELSE swap_out(s, vm, RAM_read_page(s, victim_frame, junk))
    ELSE IF ~s.page_table[vm].swapped
         THEN swap_out(s, vm, RAM_read_page(s, victim_frame, junk))
         ELSE s

\* evict_page, the write to the backing storage (lines 237-260)
evict_write_back(s, vm, victim_frame, junk) ==
    IF s.page_table[vm].dirty
    THEN IF s.page_table[vm].file_backed
         THEN Disk_write_page(s, s.page_table[vm].disk_page,
                              RAM_read_page(s, victim_frame, junk))
         ELSE swap_out(s, vm, RAM_read_page(s, victim_frame, junk))
    ELSE IF ~s.page_table[vm].file_backed /\ ~s.page_table[vm].swapped
         THEN swap_out(s, vm, RAM_read_page(s, victim_frame, junk))
         ELSE s

\* evict_page without `victim_meta->dirty = false`
evict_finish_keep_dirty(s, vm, victim_frame) ==
    [RAM_free_page([s EXCEPT !.page_table[vm].present = FALSE,
                             !.page_table[vm].physical_page = 0],
                   victim_frame)
        EXCEPT !.ret = victim_frame]
\* evict_page lines 262-270
evict_finish(s, vm, victim_frame) ==
    [RAM_free_page([s EXCEPT !.page_table[vm].present = FALSE,
                             !.page_table[vm].dirty = FALSE,
                             !.page_table[vm].physical_page = 0],
                   victim_frame)
        EXCEPT !.ret = victim_frame]

evict_victim(s, victim_frame, victim_meta, junk) ==
    IF victim_frame = MinusOne \/ victim_meta = nullptr
    THEN [s EXCEPT !.ret = MinusOne]
    ELSE evict_finish(evict_write_back(Logged(s, "MMU::evict_page", victim_meta),
                                       victim_meta, victim_frame, junk),
                      victim_meta, victim_frame)

evict_page(s, junk) ==
    evict_victim(s, find_lru_page(s), RAM_get_page_metadata(s, find_lru_page(s)), junk)

\* handle_page_fault lines 320-327: the buffer into the frame, the entry updated
load_finish(s, virtual_page, phys_page, buffer, uninit) ==
    [RAM_write_page(s, phys_page, buffer)
        EXCEPT !.page_table[virtual_page].physical_page = phys_page,
               !.page_table[virtual_page].present = TRUE,
               !.page_table[virtual_page].last_access = s.current_time + 1,
               !.current_time = @ + 1,
               !.undef = (@ \/ uninit),
               !.ok = TRUE]

\* load_page without `pte.swapped = false`
load_page_keep_swapped(s, virtual_page, phys_page, junk) ==
    IF s.page_table[virtual_page].swapped
    THEN load_finish(
            SwapSpace_free_slot(
                Logged(s, "SwapSpace::read_page", s.page_table[virtual_page].swap_slot),
                s.page_table[virtual_page].swap_slot),
            virtual_page, phys_page,
            SwapSpace_read_page(s, s.page_table[virtual_page].swap_slot, junk),
            ~ULess(s.page_table[virtual_page].swap_slot, SWAP_SIZE \div PAGE_SIZE))
    ELSE IF s.page_table[virtual_page].file_backed
         THEN load_finish(
                 Logged(s, "Disk::read_page", s.page_table[virtual_page].disk_page),
                 virtual_page, phys_page,
                 Disk_read_page(s, s.page_table[virtual_page].disk_page, junk),
                 ~DiskInRange(s.page_table[virtual_page].disk_page))
         ELSE load_finish(s, virtual_page, phys_page, 0, FALSE)
\* handle_page_fault lines 304-318: the content comes from the swap slot (then
\* freed), from the disk page, or is zero
load_page(s, virtual_page, phys_page, junk) ==
    IF s.page_table[virtual_page].swapped
    THEN load_finish(
            [SwapSpace_free_slot(
                 Logged(s, "SwapSpace::read_page", s.page_table[virtual_page].swap_slot),
                 s.page_table[virtual_page].swap_slot)
                EXCEPT !.page_table[virtual_page].swapped = FALSE],
            virtual_page, phys_page,
            SwapSpace_read_page(s, s.page_table[virtual_page].swap_slot, junk),
            ~ULess(s.page_table[virtual_page].swap_slot, SWAP_SIZE \div PAGE_SIZE))
    ELSE IF s.page_table[virtual_page].file_backed
         THEN load_finish(
                 Logged(s, "Disk::read_page", s.page_table[virtual_page].disk_page),
                 virtual_page, phys_page,
                 Disk_read_page(s, s.page_table[virtual_page].disk_page, junk),
                 ~DiskInRange(s.page_table[virtual_page].disk_page))
         ELSE load_finish(s, virtual_page, phys_page, 0, FALSE)

\* handle_page_fault lines 299-302, after a successful eviction
load_after_alloc(a, virtual_page, junk) == load_page(a, virtual_page, a.ret, junk)

\* after_evict with the frame taken from a second eviction
after_evict_again(e, virtual_page, junk) ==
    IF e.ret = MinusOne
    THEN [e EXCEPT !.ok = FALSE]
    ELSE load_after_alloc(evict_page(RAM_allocate_page(RAM_free_page(e, e.ret), virtual_page),
                                     junk),
                          virtual_page, junk)

\* handle_page_fault lines 295-302: the frame of the victim is allocated again
after_evict(e, virtual_page, junk) ==
    IF e.ret = MinusOne
    THEN [e EXCEPT !.ok = FALSE]
    ELSE load_after_alloc(RAM_allocate_page(RAM_free_page(e, e.ret), virtual_page),
                          virtual_page, junk)

\* handle_page_fault lines 293-302, after the first allocate_page
after_alloc(a, virtual_page, junk) ==
    IF a.ret # MinusOne
    THEN load_page(a, virtual_page, a.ret, junk)
    ELSE after_evict(evict_page(a, junk), virtual_page, junk)

handle_page_fault(s, virtual_page, junk) ==
    IF virtual_page \notin DOMAIN s.page_table
    THEN [s EXCEPT !.ok = FALSE]
    ELSE after_alloc(RAM_allocate_page(s, virtual_page), virtual_page, junk)

\* translate_finish with `current_time` in place of `++current_time`
translate_finish_no_tick(h, virtual_page, page_offset, write_access) ==
    IF ~h.ok
    THEN h
    ELSE [h EXCEPT !.page_table[virtual_page].last_access = h.current_time,
                   !.page_table[virtual_page].accessed = TRUE,
                   !.page_table[virtual_page].dirty = (write_access \/ @),
                   !.ret = h.page_table[virtual_page].physical_page * PAGE_SIZE
                           + page_offset,
                   !.ok = TRUE]
\* translate_address lines 350-358.  s.ret is the offset of the returned pointer
\* in RAM::memory; s.ok = FALSE is nullptr
translate_finish(h, virtual_page, page_offset, write_access) ==
    IF ~h.ok
    THEN h
    ELSE [h EXCEPT !.page_table[virtual_page].last_access = h.current_time + 1,
                   !.page_table[virtual_page].accessed = TRUE,
                   !.page_table[virtual_page].dirty = (write_access \/ @),
                   !.current_time = @ + 1,
                   !.ret = h.page_table[virtual_page].physical_page * PAGE_SIZE
                           + page_offset,
                   !.ok = TRUE]

\* translate_address with the clock advanced before the lookup
translate_address_ticking(s, virtual_addr, write_access, junk) ==
    IF virtual_addr \div PAGE_SIZE \notin DOMAIN s.page_table
    THEN [s EXCEPT !.ok = FALSE, !.current_time = @ + 1]
    ELSE IF ~s.page_table[virtual_addr \div PAGE_SIZE].present
         THEN translate_finish(handle_page_fault(s, virtual_addr \div PAGE_SIZE, junk),
                               virtual_addr \div PAGE_SIZE, virtual_addr % PAGE_SIZE,
                               write_access)
         ELSE translate_finish([s EXCEPT !.ok = TRUE],
                               virtual_addr \div PAGE_SIZE, virtual_addr % PAGE_SIZE,
                               write_access)

translate_address(s, virtual_addr, write_access, junk) ==
    IF virtual_addr \div PAGE_SIZE \notin DOMAIN s.page_table
    THEN [s EXCEPT !.ok = FALSE]
    ELSE IF ~s.page_table[virtual_addr \div PAGE_SIZE].present
         THEN translate_finish(handle_page_fault(s, virtual_addr \div PAGE_SIZE, junk),
                               virtual_addr \div PAGE_SIZE, virtual_addr % PAGE_SIZE,
                               write_access)
         ELSE translate_finish([s EXCEPT !.ok = TRUE],
                               virtual_addr \div PAGE_SIZE, virtual_addr % PAGE_SIZE,
                               write_access)

\* map_pages with the new entry marked present
map_one_resident(pt, virtual_page, file_backed, disk_page) ==
    [v \in DOMAIN pt \cup {virtual_page} |->
        IF v = virtual_page
        THEN [PageMetadata EXCEPT !.file_backed = file_backed,
                                  !.virtual_page = virtual_page,
                                  !.present = TRUE,
                                  !.disk_page = IF file_backed THEN disk_page ELSE 0]
        ELSE pt[v]]

\* one iteration of the loop of map_pages: page_table[virtual_page] = pte
map_one(pt, virtual_page, file_backed, disk_page) ==
    [v \in DOMAIN pt \cup {virtual_page} |->
        IF v = virtual_page
        THEN [PageMetadata EXCEPT !.file_backed = file_backed,
                                  !.virtual_page = virtual_page,
                                  !.disk_page = IF file_backed THEN disk_page ELSE 0]
        ELSE pt[v]]

RECURSIVE map_loop(_, _, _, _, _, _)
map_loop(pt, start_page, i, num_pages, file_backed, disk_start) ==
    IF i >= num_pages THEN pt
    ELSE map_loop(map_one(pt, start_page + i, file_backed, disk_start + i),
                  start_page, i + 1, num_pages, file_backed, disk_start)

map_pages(s, start_page, num_pages, file_backed, disk_start) ==
    [s EXCEPT !.page_table = map_loop(@, start_page, 0, num_pages, file_backed, disk_start),
              !.ok = TRUE]

\* unmap_write_back without the test of file_backed
unmap_write_back_any(s, virtual_page, junk) ==
    IF /\ s.page_table[virtual_page].present
       /\ s.page_table[virtual_page].dirty
    THEN Disk_write_page(s, s.page_table[virtual_page].disk_page,
                         RAM_read_page(s, s.page_table[virtual_page].physical_page, junk))
    ELSE s

\* unmap_pages lines 383-388: a dirty file-backed resident page goes to the disk
unmap_write_back(s, virtual_page, junk) ==
    IF /\ s.page_table[virtual_page].present
       /\ s.page_table[virtual_page].dirty
       /\ s.page_table[virtual_page].file_backed
    THEN Disk_write_page(s, s.page_table[virtual_page].disk_page,
                         RAM_read_page(s, s.page_table[virtual_page].physical_page, junk))
    ELSE s

\* unmap_pages without the ram.free_page of line 390
unmap_keep_frame(s, virtual_page) == s

\* unmap_pages lines 382, 389-390
unmap_free_frame(s, virtual_page) ==
    IF s.page_table[virtual_page].present
    THEN RAM_free_page(s, s.page_table[virtual_page].physical_page)
    ELSE s

\* unmap_pages without lines 391-393
unmap_keep_slot(s, virtual_page) == s

\* unmap_pages lines 391-393
unmap_free_slot(s, virtual_page) ==
    IF s.page_table[virtual_page].swapped
    THEN SwapSpace_free_slot(s, s.page_table[virtual_page].swap_slot)
    ELSE s

\* unmap_pages line 394
unmap_erase(s, virtual_page) ==
    [s EXCEPT !.page_table = [v \in DOMAIN @ \ {virtual_page} |-> @[v]]]

\* one iteration of the loop of unmap_pages
unmap_one(s, virtual_page, junk) ==
    IF virtual_page \notin DOMAIN s.page_table
    THEN s
    ELSE unmap_erase(
             unmap_free_slot(
                 unmap_free_frame(unmap_write_back(s, virtual_page, junk), virtual_page),
                 virtual_page),
             virtual_page)

\* unmap_pages with the loop left at the first page that has no entry
RECURSIVE unmap_loop_to_gap(_, _, _, _, _)
unmap_loop_to_gap(s, start_page, i, num_pages, junk) ==
    IF i >= num_pages \/ start_page + i \notin DOMAIN s.page_table THEN s
    ELSE unmap_loop_to_gap(unmap_one(s, start_page + i, junk),
                           start_page, i + 1, num_pages, junk)
RECURSIVE unmap_loop(_, _, _, _, _)
unmap_loop(s, start_page, i, num_pages, junk) ==
    IF i >= num_pages THEN s
    ELSE unmap_loop(unmap_one(s, start_page + i, junk),
                    start_page, i + 1, num_pages, junk)

unmap_pages(s, start_page, num_pages, junk) ==
    [unmap_loop(s, start_page, 0, num_pages, junk) EXCEPT !.ok = TRUE]

(***************************************************************************)
(* VirtualMemorySystem : the calls of the driver, one action per call.     *)
(* max_pages and max_time bound the cursor and the clock of a run.         *)
(***************************************************************************)
VPages(n)   == {FirstAddr \div PAGE_SIZE + p : p \in 0 .. n - 1}
Addrs(n)    == {v * PAGE_SIZE : v \in VPages(n)}
MapLengths  == {PAGE_SIZE - 1, PAGE_SIZE + 1}
UnmapLengths == {PAGE_SIZE, PAGE_SIZE + 1}
Fds         == {-1, 3}
Offsets     == {0}

PageOf(addr) == addr \div PAGE_SIZE
PagesNeeded(length) == (length + PAGE_SIZE - 1) \div PAGE_SIZE
Restrict(f, S) == [x \in DOMAIN f \cap S |-> f[x]]

\* the fields of the objects after a call that ended in s
Store(s) ==
    /\ memory' = s.memory
    /\ frame_to_page' = s.frame_to_page
    /\ allocated' = s.allocated
    /\ swap_storage' = s.swap_storage
    /\ allocated_slots' = s.allocated_slots
    /\ storage' = s.storage
    /\ page_table' = s.page_table
    /\ current_time' = s.current_time

\* the pages that hold the bytes [addr, addr + size), size >= 1
SpanPages(addr, size) == PageOf(addr) .. PageOf(addr + size - 1)

\* std::memcpy(phys_addr, data, size) into RAM::memory: the bytes go to
\* consecutive addresses of the vector, whichever frames these are in
memcpy_to_ram(s, phys_addr, data, size) ==
    [s EXCEPT !.memory = [f \in Frames |->
                             IF f \in SpanPages(phys_addr, size) THEN data ELSE @[f]]]

\* a memcpy that runs past the end of RAM::memory writes into the heap behind
\* the vector, where RAM keeps its bitmap: what `allocated` may hold afterwards
PastEnd(s, phys_addr, size) ==
    IF SpanPages(phys_addr, size) \subseteq Frames
    THEN {s.allocated}
    ELSE [Frames -> BOOLEAN]

\* the values an uninitialised buffer may hold in a call that ends in s: any,
\* when the call copies one into a frame
JunkOf(s) == IF s.undef THEN Data ELSE {0}

\* whether the access that ended in t loaded virtual page v into a frame
Loaded(t, v) == t.ok /\ v \in DOMAIN page_table /\ ~page_table[v].present

InitSwap ==
    /\ memory = [f \in Frames |-> 0]
    /\ frame_to_page = [f \in Frames |-> nullptr]
    /\ allocated = [f \in Frames |-> FALSE]
    /\ swap_storage = [i \in Slots |-> 0]
    /\ allocated_slots = [i \in Slots |-> FALSE]
    /\ storage = [d \in DiskPageIds |-> 0]
    /\ page_table = << >>
    /\ current_time = 0
    /\ next_virtual_addr = FirstAddr
    /\ ev = [op |-> "init", addr |-> 0, length |-> 0, val |-> 0, ok |-> TRUE, log |-> << >>]
    /\ shadow = << >>
    /\ written = {}
    /\ wrote = FALSE

\* VirtualMemorySystem::create_file with a content of one page, called before
\* the first mmap as main does
create_file(content) ==
    /\ next_virtual_addr = FirstAddr
    /\ storage' = [storage EXCEPT ![0] = content]
    /\ ev' = [op |-> "create_file", addr |-> 0, length |-> PAGE_SIZE, val |-> content,
              ok |-> TRUE, log |-> << >>]
    /\ UNCHANGED <<memory, frame_to_page, allocated, swap_storage, allocated_slots,
                   page_table, current_time, next_virtual_addr, shadow, written,
                   wrote>>
    /\ UNCHANGED <<dirVars, loadVars, basicVars, execVars>>

mmap(length, fd, offset, max_pages) ==
    LET pages_needed == PagesNeeded(length)
        virtual_addr == next_virtual_addr
        start_page   == PageOf(virtual_addr)
        file_backed  == fd # -1
        disk_start   == IF file_backed THEN offset \div PAGE_SIZE ELSE 0
    IN  /\ virtual_addr + pages_needed * PAGE_SIZE <= FirstAddr + max_pages * PAGE_SIZE
        /\ \E m \in {map_pages(Cur, start_page, pages_needed, file_backed, disk_start)} :
              /\ Store(m)
              /\ next_virtual_addr' = IF m.ok
                                      THEN next_virtual_addr + pages_needed * PAGE_SIZE
                                      ELSE next_virtual_addr
              /\ ev' = [op |-> "mmap", addr |-> 0, length |-> length,
                        val |-> IF m.ok THEN virtual_addr ELSE 0, ok |-> m.ok,
                        log |-> m.log, fd |-> fd, offset |-> offset]
              /\ UNCHANGED <<shadow, written, wrote, dirVars, loadVars, basicVars, execVars>>

munmap(addr, length) ==
    \E junk \in JunkOf(unmap_pages(Cur, PageOf(addr), PagesNeeded(length), 0)) :
        \E u \in {unmap_pages(Cur, PageOf(addr), PagesNeeded(length), junk)} :
            /\ Store(u)
            /\ ev' = [op |-> "munmap", addr |-> addr, length |-> length,
                      val |-> IF u.ok THEN 0 ELSE -1, ok |-> u.ok, log |-> u.log]
            /\ shadow' = Restrict(shadow, DOMAIN u.page_table)
            /\ written' = written \cap DOMAIN u.page_table
            /\ UNCHANGED <<next_virtual_addr, wrote, dirVars, loadVars, basicVars, execVars>>

write_memory(addr, data, size, max_time) ==
    \E junk \in JunkOf(translate_address(Cur, addr, TRUE, 0)) :
        \E t \in {translate_address(Cur, addr, TRUE, junk)} :
        \E bitmap \in (IF t.ok THEN PastEnd(t, t.ret, size) ELSE {t.allocated}) :
        \E w \in {IF t.ok
                   THEN [memcpy_to_ram(t, t.ret, data, size) EXCEPT !.allocated = bitmap]
                   ELSE t} :
            /\ w.current_time <= max_time
            /\ Store(w)
            /\ ev' = [op |-> "write_memory", addr |-> addr, length |-> size, val |-> data,
                      ok |-> t.ok, log |-> w.log]
            /\ shadow' = IF t.ok
                         THEN [v \in DOMAIN shadow
                                      \cup (SpanPages(addr, size) \cap DOMAIN t.page_table) |->
                                  IF v \in SpanPages(addr, size) THEN data ELSE shadow[v]]
                         ELSE shadow
            /\ written' = IF t.ok
                          THEN written \cup (SpanPages(addr, size) \cap DOMAIN t.page_table)
                          ELSE written
            /\ wrote' = (wrote \/ t.ok)
            /\ UNCHANGED <<next_virtual_addr, dirVars, loadVars, basicVars, execVars>>

read_memory(addr, max_time) ==
    \E junk \in JunkOf(translate_address(Cur, addr, FALSE, 0)) :
        \E t \in {translate_address(Cur, addr, FALSE, junk)} :
            /\ t.current_time <= max_time
            /\ Store(t)
            /\ ev' = [op |-> "read_memory", addr |-> addr, length |-> 1,
                      val |-> IF t.ok THEN t.memory[t.ret \div PAGE_SIZE] ELSE 0,
                      ok |-> t.ok, log |-> t.log]
            /\ written' = IF Loaded(t, PageOf(addr)) THEN written \ {PageOf(addr)}
                          ELSE written
            /\ UNCHANGED <<next_virtual_addr, shadow, wrote, dirVars, loadVars, basicVars, execVars>>

(***************************************************************************)
(* Direct calls of the public methods of MMU, as a caller holding the MMU  *)
(* makes them.  The history variables follow VirtualMemorySystem calls     *)
(* only and are left alone.                                                *)
(***************************************************************************)
Call_map_pages(start_page, num_pages, file_backed, disk_start) ==
    \E m \in {map_pages(Cur, start_page, num_pages, file_backed, disk_start)} :
        /\ Store(m)
        /\ ev' = [op |-> "MMU::map_pages", addr |-> start_page, length |-> num_pages,
                  val |-> 0, ok |-> m.ok, log |-> m.log]
        /\ UNCHANGED <<next_virtual_addr, shadow, written, wrote, dirVars, loadVars, basicVars, execVars>>

Call_unmap_pages(start_page, num_pages) ==
    \E junk \in JunkOf(unmap_pages(Cur, start_page, num_pages, 0)) :
        \E u \in {unmap_pages(Cur, start_page, num_pages, junk)} :
            /\ Store(u)
            /\ ev' = [op |-> "MMU::unmap_pages", addr |-> start_page,
                      length |-> num_pages, val |-> 0, ok |-> u.ok, log |-> u.log]
            /\ UNCHANGED <<next_virtual_addr, shadow, written, wrote, dirVars, loadVars, basicVars, execVars>>

Call_translate_address(virtual_addr, write_access, max_time) ==
    \E junk \in JunkOf(translate_address(Cur, virtual_addr, write_access, 0)) :
        \E t \in {translate_address(Cur, virtual_addr, write_access, junk)} :
            /\ t.current_time <= max_time
            /\ Store(t)
            /\ ev' = [op |-> "MMU::translate_address", addr |-> virtual_addr,
                      length |-> 0, val |-> IF t.ok THEN t.ret ELSE 0, ok |-> t.ok,
                      log |-> t.log]
            /\ UNCHANGED <<next_virtual_addr, shadow, written, wrote, dirVars, loadVars, basicVars, execVars>>

(***************************************************************************)
(* Words of Parts II and III.  A uint32_t is kept as its page number (bits *)
(* 31-12) and its page offset (bits 11-0); arithmetic is modulo 2^32.      *)
(***************************************************************************)
PTE_ENTRIES == 1024
PDE_ENTRIES == 1024
PTE_PRESENT == 1
PTE_WRITE   == 2
PTE_USER    == 4

\* the page numbers of a 32-bit address: 2^20
PageNumbers == PDE_ENTRIES * PTE_ENTRIES

Word(pn, off) == [pn |-> pn, off |-> off]

\* a uint32_t below PAGE_SIZE
U32(n) == Word(0, n)

\* w + n, for an int n >= 0
Add32(w, n) ==
    Word((w.pn + (w.off + n) \div PAGE_SIZE) % PageNumbers, (w.off + n) % PAGE_SIZE)

\* w - v
Sub32(w, v) ==
    Word((w.pn - v.pn - (IF w.off < v.off THEN 1 ELSE 0) + PageNumbers) % PageNumbers,
         (w.off - v.off + PAGE_SIZE) % PAGE_SIZE)

\* w < v
Less32(w, v) == w.pn < v.pn \/ (w.pn = v.pn /\ w.off < v.off)

RECURSIVE BitOr(_, _)
BitOr(a, b) ==
    IF a = 0 THEN b
    ELSE IF b = 0 THEN a
    ELSE (IF a % 2 = 1 \/ b % 2 = 1 THEN 1 ELSE 0) + 2 * BitOr(a \div 2, b \div 2)

\* x | y
Or32(x, y) == Word(BitOr(x.pn, y.pn), BitOr(x.off, y.off))

\* (w & flag) != 0 for a one-bit flag below PAGE_SIZE
HasFlag(w, flag) == (w.off \div flag) % 2 = 1

PDX(va) == (va.pn \div PTE_ENTRIES) % PDE_ENTRIES
PTX(va) == va.pn % PTE_ENTRIES
PG_OFFSET(va) == va.off
PTE_ADDR(pte) == Word(pte.pn, 0)

\* (value >> (i * 8)) & 0xFF
ByteOf(value, i) ==
    CASE i = 0 -> value.off % 256
      [] i = 1 -> value.off \div 256 + (value.pn % 16) * 16
      [] i = 2 -> (value.pn \div 16) % 256
      [] i = 3 -> value.pn \div 4096

\* b0 | b1 << 8 | b2 << 16 | b3 << 24
FromBytes(b0, b1, b2, b3) ==
    Word(b1 \div 16 + b2 * 16 + b3 * 4096, b0 + (b1 % 16) * 256)

\* 0xFFFFFFFF
InvalidAddress == Word(PageNumbers - 1, PAGE_SIZE - 1)

\* a std::vector<uint8_t>(PAGE_SIZE, 0) is kept as the function of its non-zero
\* bytes
ZeroPage == [o \in {} |-> 0]

GetByte(pg, off) == IF off \in DOMAIN pg THEN pg[off] ELSE 0

SetByte(pg, off, value) ==
    IF value = 0
    THEN [o \in DOMAIN pg \ {off} |-> pg[o]]
    ELSE [o \in DOMAIN pg \cup {off} |-> IF o = off THEN value ELSE pg[o]]

(***************************************************************************)
(* Part II : page_table_directory.cpp                                      *)
(***************************************************************************)
\* ProcessManager::current_pid when no process was switched to
NoPid == -1

\* PhysicalMemory() : no pages, next_free_page = 0x100000
PhysicalMemory == [pages |-> [p \in {} |-> ZeroPage], next_free_page |-> Word(256, 0)]

\* the page address returned is pm.next_free_page
PhysicalMemory_allocate_page(pm) ==
    [pages |-> [p \in DOMAIN pm.pages \cup {pm.next_free_page} |->
                   IF p = pm.next_free_page THEN ZeroPage ELSE pm.pages[p]],
     next_free_page |-> Add32(pm.next_free_page, PAGE_SIZE)]

PhysicalMemory_read_byte(pm, phys_addr) ==
    IF PTE_ADDR(phys_addr) \notin DOMAIN pm.pages
    THEN 0
    ELSE GetByte(pm.pages[PTE_ADDR(phys_addr)], phys_addr.off)

PhysicalMemory_write_byte(pm, phys_addr, value) ==
    IF PTE_ADDR(phys_addr) \notin DOMAIN pm.pages
    THEN pm
    ELSE [pm EXCEPT !.pages[PTE_ADDR(phys_addr)] = SetByte(@, phys_addr.off, value)]

PhysicalMemory_write_uint32(pm, phys_addr, value) ==
    PhysicalMemory_write_byte(
        PhysicalMemory_write_byte(
            PhysicalMemory_write_byte(
                PhysicalMemory_write_byte(pm, phys_addr, ByteOf(value, 0)),
                Add32(phys_addr, 1), ByteOf(value, 1)),
            Add32(phys_addr, 2), ByteOf(value, 2)),
        Add32(phys_addr, 3), ByteOf(value, 3))

PhysicalMemory_read_uint32(pm, phys_addr) ==
    FromBytes(PhysicalMemory_read_byte(pm, phys_addr),
              PhysicalMemory_read_byte(pm, Add32(phys_addr, 1)),
              PhysicalMemory_read_byte(pm, Add32(phys_addr, 2)),
              PhysicalMemory_read_byte(pm, Add32(phys_addr, 3)))

\* PageTableManager(pm), whose directory is the page allocate_page returns
PageTableManager(page_addr) ==
    [page_directory_phys |-> page_addr, allocated_page_tables |-> [i \in {} |-> 0]]

\* map_page lines 155-163: the entry is written whatever it held
PageTableManager_set_pte(pm, ptm, page_table_phys, table_index, physical_addr, flags) ==
    [phys_mem |-> PhysicalMemory_write_uint32(
                      pm, Add32(page_table_phys, table_index * 4),
                      Or32(Or32(physical_addr, flags), U32(PTE_PRESENT))),
     ptm |-> ptm,
     ok |-> TRUE]

\* map_page lines 135-147: a new page table, noted and entered in the directory
PageTableManager_grow(pm, ptm, dir_index, pde_addr, page_table_phys) ==
    [phys_mem |-> PhysicalMemory_write_uint32(
                      PhysicalMemory_allocate_page(pm), pde_addr,
                      Or32(Or32(Or32(page_table_phys, U32(PTE_PRESENT)), U32(PTE_WRITE)),
                           U32(PTE_USER))),
     ptm |-> [ptm EXCEPT !.allocated_page_tables =
                 [i \in DOMAIN @ \cup {dir_index} |->
                     IF i = dir_index THEN page_table_phys ELSE @[i]]]]

PageTableManager_map_in(g, page_table_phys, table_index, physical_addr, flags) ==
    PageTableManager_set_pte(g.phys_mem, g.ptm, page_table_phys, table_index,
                             physical_addr, flags)

PageTableManager_map_page(pm, ptm, virtual_addr, physical_addr, flags) ==
    LET pde_addr == Add32(ptm.page_directory_phys, PDX(virtual_addr) * 4)
        pde      == PhysicalMemory_read_uint32(pm, pde_addr)
    IN  IF ~HasFlag(pde, PTE_PRESENT)
        THEN PageTableManager_map_in(
                 PageTableManager_grow(pm, ptm, PDX(virtual_addr), pde_addr,
                                       pm.next_free_page),
                 pm.next_free_page, PTX(virtual_addr), physical_addr, flags)
        ELSE PageTableManager_set_pte(pm, ptm, PTE_ADDR(pde), PTX(virtual_addr),
                                      physical_addr, flags)

\* translate_address without `+ offset`
PageTableManager_translate_page(pm, ptm, virtual_addr) ==
    LET pde == PhysicalMemory_read_uint32(
                   pm, Add32(ptm.page_directory_phys, PDX(virtual_addr) * 4))
        pte == PhysicalMemory_read_uint32(
                   pm, Add32(PTE_ADDR(pde), PTX(virtual_addr) * 4))
    IN  IF ~HasFlag(pde, PTE_PRESENT) THEN InvalidAddress
        ELSE IF ~HasFlag(pte, PTE_PRESENT) THEN InvalidAddress
        ELSE PTE_ADDR(pte)

PageTableManager_translate_address(pm, ptm, virtual_addr) ==
    LET pde == PhysicalMemory_read_uint32(
                   pm, Add32(ptm.page_directory_phys, PDX(virtual_addr) * 4))
        pte == PhysicalMemory_read_uint32(
                   pm, Add32(PTE_ADDR(pde), PTX(virtual_addr) * 4))
    IN  IF ~HasFlag(pde, PTE_PRESENT) THEN InvalidAddress
        ELSE IF ~HasFlag(pte, PTE_PRESENT) THEN InvalidAddress
        ELSE Add32(PTE_ADDR(pte), PG_OFFSET(virtual_addr))

\* get_current_process returning the process with the lowest pid
get_first_process ==
    IF current_pid = NoPid \/ current_pid \notin DOMAIN processes
    THEN nullptr
    ELSE Min(DOMAIN processes)

\* the key of the current PageTableManager, or nullptr
get_current_process ==
    IF current_pid = NoPid \/ current_pid \notin DOMAIN processes
    THEN nullptr
    ELSE current_pid

Pids     == 1 .. MaxPids
\* 0x08048000, 0x08049000 and 0xBFFFF000, the addresses main maps
DirVAs   == {Word(32840, 0), Word(32841, 0), Word(786431, 0)}
DirFlags == {U32(PTE_USER), U32(BitOr(PTE_USER, PTE_WRITE))}
DirBytes == {66}

\* allocate_page may be called n more times
CanAllocate(pm, n) == pm.next_free_page.pn + n <= PhysicalMemory.next_free_page.pn + DirPages

InitDir ==
    /\ phys_mem = PhysicalMemory
    /\ processes = [q \in {} |-> 0]
    /\ current_pid = NoPid
    /\ dev = [op |-> "init", cur |-> nullptr, va |-> U32(0), val |-> 0, ok |-> TRUE]

\* create_process that makes the new process the current one
create_process_current(pid) ==
    /\ CanAllocate(phys_mem, 1)
    /\ phys_mem' = PhysicalMemory_allocate_page(phys_mem)
    /\ processes' = [q \in DOMAIN processes \cup {pid} |->
                        IF q = pid THEN PageTableManager(phys_mem.next_free_page)
                        ELSE processes[q]]
    /\ current_pid' = pid
    /\ dev' = [op |-> "create_process", cur |-> get_current_process, va |-> U32(0),
               val |-> pid, ok |-> TRUE]
    /\ UNCHANGED <<swapVars, loadVars, basicVars, execVars>>

create_process(pid) ==
    /\ CanAllocate(phys_mem, 1)
    /\ phys_mem' = PhysicalMemory_allocate_page(phys_mem)
    /\ processes' = [q \in DOMAIN processes \cup {pid} |->
                        IF q = pid THEN PageTableManager(phys_mem.next_free_page)
                        ELSE processes[q]]
    /\ dev' = [op |-> "create_process", cur |-> get_current_process, va |-> U32(0),
               val |-> pid, ok |-> TRUE]
    /\ UNCHANGED <<current_pid, swapVars, loadVars, basicVars, execVars>>

\* switch_to_process that builds a new PageTableManager for the process
switch_to_process_rebuild(pid) ==
    /\ current_pid' = IF pid \notin DOMAIN processes THEN current_pid ELSE pid
    /\ phys_mem' = IF pid \notin DOMAIN processes THEN phys_mem
                   ELSE PhysicalMemory_allocate_page(phys_mem)
    /\ processes' = IF pid \notin DOMAIN processes THEN processes
                    ELSE [processes EXCEPT ![pid] = PageTableManager(phys_mem.next_free_page)]
    /\ dev' = [op |-> "switch_to_process", cur |-> get_current_process, va |-> U32(0),
               val |-> pid, ok |-> pid \in DOMAIN processes]
    /\ UNCHANGED <<swapVars, loadVars, basicVars, execVars>>

switch_to_process(pid) ==
    /\ current_pid' = IF pid \notin DOMAIN processes THEN current_pid ELSE pid
    /\ dev' = [op |-> "switch_to_process", cur |-> get_current_process, va |-> U32(0),
               val |-> pid, ok |-> pid \in DOMAIN processes]
    /\ UNCHANGED <<phys_mem, processes, swapVars, loadVars, basicVars, execVars>>

\* MultiProcess::map_memory; dev.ok is what map_page returned
map_memory(virtual_addr, flags) ==
    IF get_current_process = nullptr
    THEN /\ dev' = [op |-> "map_memory", cur |-> nullptr, va |-> virtual_addr,
                    val |-> 0, ok |-> FALSE]
         /\ UNCHANGED <<phys_mem, processes, current_pid, swapVars, loadVars, basicVars, execVars>>
    ELSE /\ CanAllocate(phys_mem, 2)
         /\ \E m \in {PageTableManager_map_page(
                          PhysicalMemory_allocate_page(phys_mem),
                          processes[get_current_process], virtual_addr,
                          phys_mem.next_free_page, flags)} :
               /\ phys_mem' = m.phys_mem
               /\ processes' = [processes EXCEPT ![get_current_process] = m.ptm]
               /\ dev' = [op |-> "map_memory", cur |-> get_current_process,
                          va |-> virtual_addr, val |-> 0, ok |-> m.ok]
         /\ UNCHANGED <<current_pid, swapVars, loadVars, basicVars, execVars>>

write_virtual(virtual_addr, value) ==
    IF get_current_process = nullptr
    THEN /\ dev' = [op |-> "write_virtual", cur |-> nullptr, va |-> virtual_addr,
                    val |-> value, ok |-> FALSE]
         /\ UNCHANGED <<phys_mem, processes, current_pid, swapVars, loadVars, basicVars, execVars>>
    ELSE \E phys_addr \in {PageTableManager_translate_address(
                               phys_mem, processes[get_current_process], virtual_addr)} :
            /\ phys_mem' = IF phys_addr = InvalidAddress THEN phys_mem
                           ELSE PhysicalMemory_write_byte(phys_mem, phys_addr, value)
            /\ dev' = [op |-> "write_virtual", cur |-> get_current_process,
                       va |-> virtual_addr, val |-> value,
                       ok |-> phys_addr # InvalidAddress]
            /\ UNCHANGED <<processes, current_pid, swapVars, loadVars, basicVars, execVars>>

read_virtual(virtual_addr) ==
    IF get_current_process = nullptr
    THEN /\ dev' = [op |-> "read_virtual", cur |-> nullptr, va |-> virtual_addr,
                    val |-> 0, ok |-> FALSE]
         /\ UNCHANGED <<phys_mem, processes, current_pid, swapVars, loadVars, basicVars, execVars>>
    ELSE \E phys_addr \in {PageTableManager_translate_address(
                               phys_mem, processes[get_current_process], virtual_addr)} :
            /\ dev' = [op |-> "read_virtual", cur |-> get_current_process,
                       va |-> virtual_addr,
                       val |-> IF phys_addr = InvalidAddress THEN 0
                               ELSE PhysicalMemory_read_byte(phys_mem, phys_addr),
                       ok |-> phys_addr # InvalidAddress]
            /\ UNCHANGED <<phys_mem, processes, current_pid, swapVars, loadVars, basicVars, execVars>>

(***************************************************************************)
(* Part III : allocvm_and_loadvm_sim.cpp                                   *)
(* Its PhysicalMemory is the object `ram` of main; the methods are         *)
(* functions of its value rm = [pages, next_free_page].                    *)
(***************************************************************************)
\* 0x80000000
KERNBASE == Word(524288, 0)
V2P(a) == Sub32(a, KERNBASE)
PGROUNDUP(sz) == PTE_ADDR(Add32(sz, PAGE_SIZE - 1))
PGROUNDDOWN(sz) == PTE_ADDR(sz)

\* the page address returned is rm.next_free_page
kalloc(rm) ==
    [pages |-> [p \in DOMAIN rm.pages \cup {rm.next_free_page} |->
                   IF p = rm.next_free_page THEN ZeroPage ELSE rm.pages[p]],
     next_free_page |-> Add32(rm.next_free_page, PAGE_SIZE)]

kfree(rm, page_addr) ==
    IF page_addr \in DOMAIN rm.pages
    THEN [rm EXCEPT !.pages = [p \in DOMAIN @ \ {page_addr} |-> @[p]]]
    ELSE rm

ram_read_byte(rm, phys_addr) ==
    IF PTE_ADDR(phys_addr) \notin DOMAIN rm.pages
    THEN 0
    ELSE GetByte(rm.pages[PTE_ADDR(phys_addr)], phys_addr.off)

ram_write_byte(rm, phys_addr, value) ==
    IF PTE_ADDR(phys_addr) \notin DOMAIN rm.pages
    THEN rm
    ELSE [rm EXCEPT !.pages[PTE_ADDR(phys_addr)] = SetByte(@, phys_addr.off, value)]

ram_write_uint32(rm, phys_addr, value) ==
    ram_write_byte(
        ram_write_byte(
            ram_write_byte(
                ram_write_byte(rm, phys_addr, ByteOf(value, 0)),
                Add32(phys_addr, 1), ByteOf(value, 1)),
            Add32(phys_addr, 2), ByteOf(value, 2)),
        Add32(phys_addr, 3), ByteOf(value, 3))

ram_read_uint32(rm, phys_addr) ==
    FromBytes(ram_read_byte(rm, phys_addr),
              ram_read_byte(rm, Add32(phys_addr, 1)),
              ram_read_byte(rm, Add32(phys_addr, 2)),
              ram_read_byte(rm, Add32(phys_addr, 3)))

\* page_table_phys | PTE_PRESENT | PTE_WRITE | PTE_USER
TableEntry(page_table_phys) ==
    Or32(Or32(Or32(page_table_phys, U32(PTE_PRESENT)), U32(PTE_WRITE)), U32(PTE_USER))

\* walkpgdir with the kalloc of line 239 and without the write_uint32 of line 244
walkpgdir_no_install(rm, pgdir, virtual_addr, alloc) ==
    LET pde_addr == Add32(pgdir, PDX(virtual_addr) * 4)
        pde      == ram_read_uint32(rm, pde_addr)
    IN  IF ~HasFlag(pde, PTE_PRESENT)
        THEN IF ~alloc
             THEN [ram |-> rm, found |-> FALSE, pte_storage |-> U32(0)]
             ELSE [ram |-> kalloc(rm), found |-> TRUE, pte_storage |-> U32(0)]
        ELSE [ram |-> rm, found |-> TRUE,
              pte_storage |-> ram_read_uint32(
                  rm, Add32(PTE_ADDR(pde), PTX(virtual_addr) * 4))]

\* walkpgdir: found = FALSE is the nullptr it returns, pte_storage the static
\* uint32_t its pointer refers to otherwise
walkpgdir(rm, pgdir, virtual_addr, alloc) ==
    LET pde_addr == Add32(pgdir, PDX(virtual_addr) * 4)
        pde      == ram_read_uint32(rm, pde_addr)
        grown    == ram_write_uint32(kalloc(rm), pde_addr, TableEntry(rm.next_free_page))
    IN  IF ~HasFlag(pde, PTE_PRESENT)
        THEN IF ~alloc
             THEN [ram |-> rm, found |-> FALSE, pte_storage |-> U32(0)]
             ELSE [ram |-> grown, found |-> TRUE,
                   pte_storage |-> ram_read_uint32(
                       grown, Add32(rm.next_free_page, PTX(virtual_addr) * 4))]
        ELSE [ram |-> rm, found |-> TRUE,
              pte_storage |-> ram_read_uint32(
                  rm, Add32(PTE_ADDR(pde), PTX(virtual_addr) * 4))]

\* mappages lines 283-293 with the present test left out
mappages_entry_overwrite(rm, pte_addr, pa, perm) ==
    [ram |-> ram_write_uint32(rm, pte_addr, Or32(Or32(pa, U32(perm)), U32(PTE_PRESENT))),
     ret |-> 0]

\* mappages lines 283-293: the entry at pte_addr is set unless it is present
mappages_entry(rm, pte_addr, pa, perm) ==
    IF HasFlag(ram_read_uint32(rm, pte_addr), PTE_PRESENT)
    THEN [ram |-> rm, ret |-> -1]
    ELSE [ram |-> ram_write_uint32(rm, pte_addr,
                                   Or32(Or32(pa, U32(perm)), U32(PTE_PRESENT))),
          ret |-> 0]

\* mappages lines 267-293: one pass of the loop, for the page a
mappages_page(rm, pgdir, a, pa, perm) ==
    LET pde_addr == Add32(pgdir, PDX(a) * 4)
        pde      == ram_read_uint32(rm, pde_addr)
    IN  IF ~HasFlag(pde, PTE_PRESENT)
        THEN mappages_entry(
                 ram_write_uint32(kalloc(rm), pde_addr, TableEntry(rm.next_free_page)),
                 Add32(rm.next_free_page, PTX(a) * 4), pa, perm)
        ELSE mappages_entry(rm, Add32(PTE_ADDR(pde), PTX(a) * 4), pa, perm)

RECURSIVE mappages_loop(_, _, _, _, _, _)
\* mappages lines 298-302, after the pass that ended in it
mappages_next(it, pgdir, a, last, pa, perm) ==
    IF it.ret = -1 \/ a = last
    THEN it
    ELSE mappages_loop(it.ram, pgdir, Add32(a, PAGE_SIZE), last,
                       Add32(pa, PAGE_SIZE), perm)

mappages_loop(rm, pgdir, a, last, pa, perm) ==
    mappages_next(mappages_page(rm, pgdir, a, pa, perm), pgdir, a, last, pa, perm)

\* size >= 1
mappages(rm, pgdir, va, size, pa, perm) ==
    mappages_loop(rm, pgdir, PGROUNDDOWN(va), PGROUNDDOWN(Add32(va, size - 1)), pa, perm)

RECURSIVE allocuvm_loop(_, _, _, _)
\* allocuvm lines 325-328, after mappages of the page mem for the address a
allocuvm_mapped(m, pgdir, a, newsz, mem) ==
    IF m.ret < 0
    THEN [ram |-> kfree(m.ram, mem), ret |-> U32(0), log |-> << >>]
    ELSE [allocuvm_loop(m.ram, pgdir, Add32(a, PAGE_SIZE), newsz)
              EXCEPT !.log = <<[a |-> a, mem |-> mem]>> \o @]

\* allocuvm lines 316-333 (a never comes near the wrap-around of a += PAGE_SIZE);
\* log lists the pages mapped: the address a and the page mem kalloc returned
allocuvm_loop(rm, pgdir, a, newsz) ==
    IF ~Less32(a, newsz)
    THEN [ram |-> rm, ret |-> newsz, log |-> << >>]
    ELSE IF rm.next_free_page = U32(0)
         THEN [ram |-> kalloc(rm), ret |-> U32(0), log |-> << >>]
         ELSE allocuvm_mapped(
                  mappages(kalloc(rm), pgdir, a, PAGE_SIZE, V2P(rm.next_free_page),
                           BitOr(PTE_WRITE, PTE_USER)),
                  pgdir, a, newsz, rm.next_free_page)

allocuvm(rm, pgdir, oldsz, newsz) ==
    IF Less32(newsz, oldsz)
    THEN [ram |-> rm, ret |-> oldsz, log |-> << >>]
    ELSE allocuvm_loop(rm, pgdir, PGROUNDUP(oldsz), newsz)

\* "/bin/myprogram" as main builds it: headers and padding up to 0x1000, then
\* 256 bytes of code and 128 bytes of data
HeaderSize == 80
CodeOffset == 4096
CodeSize   == 256
DataSize   == 128
FileSize   == CodeOffset + CodeSize + DataSize

\* the byte at offset o >= HeaderSize of the file (the elfhdr and the two
\* proghdr take the first 16 + 2 * 32 bytes, the padding goes up to 0xFFF)
program_file(o) ==
    IF o < CodeOffset THEN 0
    ELSE IF o < CodeOffset + CodeSize THEN 144 + ((o - CodeOffset) % 16)
    ELSE 64 + ((o - CodeOffset - CodeSize) % 32)

\* Disk::read_file of "/bin/myprogram": the int it returns; on success the
\* buffer holds program_file(offset) .. program_file(offset + size - 1)
Disk_read_file(offset, size) ==
    IF offset + size > FileSize THEN -1 ELSE size

\* PhysicalMemory::write_block(phys_addr, buffer, size), size <= PAGE_SIZE, for
\* the buffer read_file filled from offset: what its write_byte calls leave.
\* Byte i goes to phys_addr + i, and is dropped when that page is not allocated.
ram_write_block(rm, phys_addr, offset, size) ==
    LET last == Add32(phys_addr, size - 1)
        \* the offsets written in the page numbered pg
        Written(pg) ==
            IF size = 0 THEN {}
            ELSE IF pg = phys_addr.pn
            THEN phys_addr.off .. (IF last.pn = pg THEN last.off ELSE PAGE_SIZE - 1)
            ELSE IF pg = last.pn THEN 0 .. last.off
            ELSE {}
        \* the index in the buffer of the byte that goes to offset o of page pg
        Index(pg, o) == IF pg = phys_addr.pn THEN o - phys_addr.off
                        ELSE o + PAGE_SIZE - phys_addr.off
        Byte(pg, o) == program_file(offset + Index(pg, o))
    IN  [rm EXCEPT !.pages =
            [q \in DOMAIN rm.pages |->
                IF Written(q.pn) = {} THEN rm.pages[q]
                ELSE [o \in (DOMAIN rm.pages[q] \ Written(q.pn))
                               \cup {w \in Written(q.pn) : Byte(q.pn, w) # 0} |->
                         IF o \in Written(q.pn) THEN Byte(q.pn, o) ELSE rm.pages[q][o]]]]

\* loaduvm lines 378-384: the page at pa takes n bytes of the file
RECURSIVE loaduvm_loop(_, _, _, _, _, _)
loaduvm_copy(rm, pgdir, va, offset, sz, i, pa, n) ==
    IF Disk_read_file(offset + i, n) # n
    THEN [ram |-> rm, ret |-> -1]
    ELSE loaduvm_loop(ram_write_block(rm, pa, offset + i, n),
                      pgdir, va, offset, sz, i + PAGE_SIZE)

\* loaduvm lines 347-388, from the pass for va + i on
loaduvm_loop(rm, pgdir, va, offset, sz, i) ==
    LET pde == ram_read_uint32(rm, Add32(pgdir, PDX(Add32(va, i)) * 4))
        pte == ram_read_uint32(rm, Add32(PTE_ADDR(pde), PTX(Add32(va, i)) * 4))
    IN  IF i >= sz THEN [ram |-> rm, ret |-> 0]
        ELSE IF ~HasFlag(pde, PTE_PRESENT) THEN [ram |-> rm, ret |-> -1]
        ELSE IF ~HasFlag(pte, PTE_PRESENT) THEN [ram |-> rm, ret |-> -1]
        ELSE loaduvm_copy(rm, pgdir, va, offset, sz, i, PTE_ADDR(pte),
                          IF sz - i < PAGE_SIZE THEN sz - i ELSE PAGE_SIZE)

loaduvm(rm, pgdir, va, offset, sz) == loaduvm_loop(rm, pgdir, va, offset, sz, 0)

\* 0x08048000 .. 0x0804A000, around the segments main loads
LoadVAs   == {Word(32840, 0), Word(32841, 0), Word(32842, 0)}
LoadSizes == {PAGE_SIZE - 1, PAGE_SIZE + 1}
\* a frame as kalloc numbers it and as V2P turns it
LoadPAs   == {Word(512, 0), V2P(Word(512, 0))}
LoadPerms == {PTE_WRITE, BitOr(PTE_WRITE, PTE_USER)}
\* sizes of the address space: 0x08048000, 0x08048100, 0x08049200
LoadSzs   == {Word(32840, 0), Word(32840, 256), Word(32841, 512)}
\* 0x08048000 and 0x08049000, where main loads the two segments
UvmVAs    == {Word(32840, 0), Word(32841, 0)}
\* the addresses of the segments and 0x00400000, under another directory entry
WalkVAs   == UvmVAs \cup {Word(1024, 0)}
\* offsets in the padding, at the data (ph.off of the second segment) and two
\* bytes before the end of the file; sizes below and above one page
FileOffsets == {HeaderSize + 16, CodeOffset + CodeSize, FileSize - 2}
\* 0x101000, the second page kalloc hands out
UvmPAs    == {Word(257, 0)}
FileSizes   == {3, PAGE_SIZE + 2}

\* kalloc has handed out at most LoadPages pages in rm
WithinPages(rm) == rm.next_free_page.pn <= PhysicalMemory.next_free_page.pn + LoadPages

\* PhysicalMemory ram; PageTableManager page_mgr(ram);
InitLoad ==
    /\ ram = kalloc(PhysicalMemory)
    /\ page_directory_phys = PhysicalMemory.next_free_page
    /\ lev = [op |-> "init", va |-> U32(0), size |-> 0, ret |-> 0]

Call_mappages(va, size, pa, perm) ==
    \E m \in {mappages(ram, page_directory_phys, va, size, pa, perm)} :
        /\ WithinPages(m.ram)
        /\ ram' = m.ram
        /\ lev' = [op |-> "mappages", va |-> va, size |-> size, ret |-> m.ret]
        /\ UNCHANGED <<page_directory_phys, swapVars, dirVars, basicVars, execVars>>

Call_allocuvm(oldsz, newsz) ==
    \E m \in {allocuvm(ram, page_directory_phys, oldsz, newsz)} :
        /\ WithinPages(m.ram)
        /\ ram' = m.ram
        /\ lev' = [op |-> "allocuvm", va |-> oldsz, size |-> 0, ret |-> m.ret,
                   log |-> m.log]
        /\ UNCHANGED <<page_directory_phys, swapVars, dirVars, basicVars, execVars>>

\* walkpgdir called by itself; lev.ret is 0 for the nullptr it returns and
\* lev.kallocs the number of pages the call allocated
Call_walkpgdir(virtual_addr, alloc) ==
    \E w \in {walkpgdir(ram, page_directory_phys, virtual_addr, alloc)} :
        /\ WithinPages(w.ram)
        /\ ram' = w.ram
        /\ lev' = [op |-> "walkpgdir", va |-> virtual_addr, size |-> 0,
                   ret |-> IF w.found THEN 1 ELSE 0, alloc |-> alloc,
                   kallocs |-> Cardinality(DOMAIN w.ram.pages \ DOMAIN ram.pages)]
        /\ UNCHANGED <<page_directory_phys, swapVars, dirVars, basicVars, execVars>>

Call_loaduvm(va, offset, sz) ==
    \E m \in {loaduvm(ram, page_directory_phys, va, offset, sz)} :
        /\ ram' = m.ram
        /\ lev' = [op |-> "loaduvm", va |-> va, size |-> sz, ret |-> m.ret,
                   offset |-> offset]
        /\ UNCHANGED <<page_directory_phys, swapVars, dirVars, basicVars, execVars>>

(***************************************************************************)
(* Specifications                                                          *)
(***************************************************************************)
(***************************************************************************)
(* Part IV : mmap.cpp, the manager without swap space.  A page fault takes *)
(* a free frame or fails; nothing is evicted.  One value per page as in    *)
(* Part I.  The methods are functions of a record s holding the fields of  *)
(* RAM, Disk and MMU during one call, with s.ret, s.ok, s.log and s.undef  *)
(* as in Part I.                                                           *)
(***************************************************************************)
Basic_RAM_SIZE  == BasicFrames * PAGE_SIZE
Basic_DISK_SIZE == BasicDiskPages * PAGE_SIZE

BasicFrameIds == 0 .. (Basic_RAM_SIZE \div PAGE_SIZE) - 1
BasicDiskIds  == 0 .. (Basic_DISK_SIZE \div PAGE_SIZE) - 1

\* PageTableEntry::PageTableEntry()
PageTableEntry ==
    [physical_page |-> 0, present |-> FALSE, dirty |-> FALSE, file_backed |-> FALSE,
     disk_page |-> 0]

BasicCur ==
    [memory |-> mm_memory, allocated |-> mm_allocated, storage |-> mm_storage,
     page_table |-> mm_page_table, ret |-> 0, ok |-> TRUE, log |-> << >>,
     undef |-> FALSE]

\* ---- Disk ----
Basic_DiskInRange(page_num) ==
    page_num >= 0 /\ page_num * PAGE_SIZE + PAGE_SIZE <= Basic_DISK_SIZE

\* the buffer after the call: untouched when the page is out of range
Basic_Disk_read_page(s, page_num, buffer) ==
    IF Basic_DiskInRange(page_num) THEN s.storage[page_num] ELSE buffer

Basic_Disk_write_page(s, page_num, buffer) ==
    IF Basic_DiskInRange(page_num)
    THEN [Logged(s, "Disk::write_page", page_num) EXCEPT !.storage[page_num] = buffer]
    ELSE Logged(s, "Disk::write_page", page_num)

\* ---- RAM ----
Basic_allocate_page(s) ==
    LET free == {i \in BasicFrameIds : ~s.allocated[i]}
    IN  IF free = {}
        THEN [s EXCEPT !.ret = MinusOne]
        ELSE [Logged(s, "RAM::allocate_page", Min(free))
                 EXCEPT !.allocated[Min(free)] = TRUE, !.ret = Min(free)]

Basic_free_page(s, page_num) ==
    IF ULess(page_num, Basic_RAM_SIZE \div PAGE_SIZE)
    THEN [Logged(s, "RAM::free_page", page_num) EXCEPT !.allocated[page_num] = FALSE]
    ELSE s

Basic_read_page(s, page_num, buffer) ==
    IF ULess(page_num, Basic_RAM_SIZE \div PAGE_SIZE) THEN s.memory[page_num] ELSE buffer

Basic_write_page(s, page_num, buffer) ==
    IF ULess(page_num, Basic_RAM_SIZE \div PAGE_SIZE)
    THEN [s EXCEPT !.memory[page_num] = buffer]
    ELSE s

\* ---- MMU ----
\* page_table[virtual_page] : the entry, default-constructed when there is none
Basic_entry(s, virtual_page) ==
    IF virtual_page \in DOMAIN s.page_table
    THEN s
    ELSE [s EXCEPT !.page_table = [v \in DOMAIN @ \cup {virtual_page} |->
                                      IF v = virtual_page THEN PageTableEntry ELSE @[v]]]

\* handle_page_fault lines 142-156: the disk page or zeroes into the frame a.ret
Basic_load_page(a, virtual_page, junk) ==
    [Basic_write_page(
         IF a.page_table[virtual_page].file_backed
         THEN Logged(a, "Disk::read_page", a.page_table[virtual_page].disk_page)
         ELSE a,
         a.ret,
         IF a.page_table[virtual_page].file_backed
         THEN Basic_Disk_read_page(a, a.page_table[virtual_page].disk_page, junk)
         ELSE 0)
        EXCEPT !.page_table[virtual_page].physical_page = a.ret,
               !.page_table[virtual_page].present = TRUE,
               !.undef = /\ a.page_table[virtual_page].file_backed
                         /\ ~Basic_DiskInRange(a.page_table[virtual_page].disk_page),
               !.ok = TRUE]

\* handle_page_fault with the entry marked present before the frame is taken
Basic_after_alloc_early(a, virtual_page, junk) ==
    IF a.ret = MinusOne
    THEN [a EXCEPT !.page_table[virtual_page].present = TRUE, !.ok = FALSE]
    ELSE Basic_load_page(a, virtual_page, junk)

\* handle_page_fault lines 136-156, after allocate_page
Basic_after_alloc(a, virtual_page, junk) ==
    IF a.ret = MinusOne
    THEN [a EXCEPT !.ok = FALSE]
    ELSE Basic_load_page(a, virtual_page, junk)

Basic_handle_page_fault(s, virtual_page, junk) ==
    Basic_after_alloc(Basic_allocate_page(Basic_entry(s, virtual_page)), virtual_page, junk)

\* translate_address lines 181-182.  s.ret is the offset of the returned pointer
\* in RAM::memory; s.ok = FALSE is nullptr
Basic_translate_finish(h, virtual_page, page_offset) ==
    IF ~h.ok
    THEN h
    ELSE [h EXCEPT !.ret = h.page_table[virtual_page].physical_page * PAGE_SIZE
                           + page_offset,
                   !.ok = TRUE]

Basic_translate_address(s, virtual_addr, junk) ==
    IF virtual_addr \div PAGE_SIZE \notin DOMAIN s.page_table
    THEN [s EXCEPT !.ok = FALSE]
    ELSE IF ~s.page_table[virtual_addr \div PAGE_SIZE].present
         THEN Basic_translate_finish(
                  Basic_handle_page_fault(s, virtual_addr \div PAGE_SIZE, junk),
                  virtual_addr \div PAGE_SIZE, virtual_addr % PAGE_SIZE)
         ELSE Basic_translate_finish([s EXCEPT !.ok = TRUE],
                                     virtual_addr \div PAGE_SIZE, virtual_addr % PAGE_SIZE)

\* one iteration of the loop of map_pages, with disk_page = disk_start
Basic_map_one_same(pt, virtual_page, file_backed, disk_start, i) ==
    [v \in DOMAIN pt \cup {virtual_page} |->
        IF v = virtual_page
        THEN [PageTableEntry EXCEPT !.file_backed = file_backed,
                                    !.disk_page = IF file_backed THEN disk_start ELSE 0]
        ELSE pt[v]]

\* one iteration of the loop of map_pages: page_table[virtual_page] = pte
Basic_map_one(pt, virtual_page, file_backed, disk_start, i) ==
    [v \in DOMAIN pt \cup {virtual_page} |->
        IF v = virtual_page
        THEN [PageTableEntry EXCEPT !.file_backed = file_backed,
                                    !.disk_page = IF file_backed THEN disk_start + i ELSE 0]
        ELSE pt[v]]

RECURSIVE Basic_map_loop(_, _, _, _, _, _)
Basic_map_loop(pt, start_page, i, num_pages, file_backed, disk_start) ==
    IF i >= num_pages THEN pt
    ELSE Basic_map_loop(Basic_map_one(pt, start_page + i, file_backed, disk_start, i),
                        start_page, i + 1, num_pages, file_backed, disk_start)

Basic_map_pages(s, start_page, num_pages, file_backed, disk_start) ==
    [s EXCEPT !.page_table = Basic_map_loop(@, start_page, 0, num_pages, file_backed,
                                            disk_start),
              !.ok = TRUE]

\* unmap_pages lines 207-215: a present page is written back when dirty and
\* file-backed, and its frame is freed
Basic_unmap_frame(s, virtual_page, junk) ==
    IF ~s.page_table[virtual_page].present
    THEN s
    ELSE Basic_free_page(
             IF s.page_table[virtual_page].dirty /\ s.page_table[virtual_page].file_backed
             THEN Basic_Disk_write_page(
                      s, s.page_table[virtual_page].disk_page,
                      Basic_read_page(s, s.page_table[virtual_page].physical_page, junk))
             ELSE s,
             s.page_table[virtual_page].physical_page)

\* one iteration of the loop of unmap_pages
Basic_unmap_one(s, virtual_page, junk) ==
    IF virtual_page \notin DOMAIN s.page_table
    THEN s
    ELSE [Basic_unmap_frame(s, virtual_page, junk)
             EXCEPT !.page_table = [v \in DOMAIN @ \ {virtual_page} |-> @[v]]]

RECURSIVE Basic_unmap_loop(_, _, _, _, _)
Basic_unmap_loop(s, start_page, i, num_pages, junk) ==
    IF i >= num_pages THEN s
    ELSE Basic_unmap_loop(Basic_unmap_one(s, start_page + i, junk),
                          start_page, i + 1, num_pages, junk)

Basic_unmap_pages(s, start_page, num_pages, junk) ==
    [Basic_unmap_loop(s, start_page, 0, num_pages, junk) EXCEPT !.ok = TRUE]

\* ---- VirtualMemorySystem ----
\* the fields of the objects after a call that ended in s
BasicStore(s) ==
    /\ mm_memory' = s.memory
    /\ mm_allocated' = s.allocated
    /\ mm_storage' = s.storage
    /\ mm_page_table' = s.page_table

InitBasic ==
    /\ mm_memory = [f \in BasicFrameIds |-> 0]
    /\ mm_allocated = [f \in BasicFrameIds |-> FALSE]
    /\ mm_storage = [d \in BasicDiskIds |-> 0]
    /\ mm_page_table = << >>
    /\ mm_next_virtual_addr = FirstAddr
    /\ mev = [op |-> "init", addr |-> 0, length |-> 0, val |-> 0, ok |-> TRUE, log |-> << >>]
    /\ mm_written = {}

\* VirtualMemorySystem::create_file -> Disk::write_file: the content goes to the
\* first pages of the disk.  Called before the first mmap as main does.
Basic_create_file(content, size) ==
    /\ mm_next_virtual_addr = FirstAddr
    /\ mm_storage' = [d \in BasicDiskIds |->
                         IF d < PagesNeeded(size) THEN content ELSE mm_storage[d]]
    /\ mev' = [op |-> "create_file", addr |-> 0, length |-> size, val |-> content,
               ok |-> TRUE, log |-> << >>]
    /\ UNCHANGED <<mm_memory, mm_allocated, mm_page_table, mm_next_virtual_addr, mm_written>>
    /\ UNCHANGED <<swapVars, dirVars, loadVars, execVars>>

\* length is a size_t: the value SIZE_MAX is kept as -1, for which
\* (length + PAGE_SIZE - 1) / PAGE_SIZE is 4094 / 4096 = 0 in 64-bit arithmetic
Basic_mmap(length, fd, offset, max_pages) ==
    LET pages_needed == PagesNeeded(length)
        virtual_addr == mm_next_virtual_addr
        start_page   == PageOf(virtual_addr)
        file_backed  == fd # -1
        disk_start   == IF file_backed THEN offset \div PAGE_SIZE ELSE 0
    IN  /\ virtual_addr + pages_needed * PAGE_SIZE <= FirstAddr + max_pages * PAGE_SIZE
        /\ \E m \in {Basic_map_pages(BasicCur, start_page, pages_needed, file_backed,
                                     disk_start)} :
              /\ BasicStore(m)
              /\ mm_next_virtual_addr' = IF m.ok
                                         THEN mm_next_virtual_addr + pages_needed * PAGE_SIZE
                                         ELSE mm_next_virtual_addr
              /\ mev' = [op |-> "mmap", addr |-> 0, length |-> length,
                         val |-> IF m.ok THEN virtual_addr ELSE 0, ok |-> m.ok,
                         log |-> m.log, fd |-> fd, offset |-> offset]
              /\ UNCHANGED <<mm_written, swapVars, dirVars, loadVars, execVars>>

Basic_munmap(addr, length) ==
    \E junk \in JunkOf(Basic_unmap_pages(BasicCur, PageOf(addr), PagesNeeded(length), 0)) :
        \E u \in {Basic_unmap_pages(BasicCur, PageOf(addr), PagesNeeded(length), junk)} :
            /\ BasicStore(u)
            /\ mev' = [op |-> "munmap", addr |-> addr, length |-> length,
                       val |-> IF u.ok THEN 0 ELSE -1, ok |-> u.ok, log |-> u.log]
            /\ UNCHANGED <<mm_next_virtual_addr, mm_written, swapVars, dirVars, loadVars, execVars>>

\* std::memcpy(phys_addr, data, size), size within the page
Basic_write_memory(addr, data) ==
    \E junk \in JunkOf(Basic_translate_address(BasicCur, addr, 0)) :
        \E t \in {Basic_translate_address(BasicCur, addr, junk)} :
            /\ BasicStore(IF t.ok
                          THEN [t EXCEPT !.memory[t.ret \div PAGE_SIZE] = data]
                          ELSE t)
            /\ mev' = [op |-> "write_memory", addr |-> addr, length |-> 1, val |-> data,
                       ok |-> t.ok, log |-> t.log]
            /\ mm_written' = IF t.ok THEN mm_written \cup {PageOf(addr)} ELSE mm_written
            /\ UNCHANGED <<mm_next_virtual_addr, swapVars, dirVars, loadVars, execVars>>

Basic_read_memory(addr) ==
    \E junk \in JunkOf(Basic_translate_address(BasicCur, addr, 0)) :
        \E t \in {Basic_translate_address(BasicCur, addr, junk)} :
            /\ BasicStore(t)
            /\ mev' = [op |-> "read_memory", addr |-> addr, length |-> 1,
                       val |-> IF t.ok THEN t.memory[t.ret \div PAGE_SIZE] ELSE 0,
                       ok |-> t.ok, log |-> t.log]
            /\ UNCHANGED <<mm_next_virtual_addr, mm_written, swapVars, dirVars, loadVars, execVars>>

(***************************************************************************)
(* Part V : xv6_code_related_to_vm/exece_eg_how_to_set_up_vm_for_pg.c.     *)
(* exec is a function of x, the record of its locals during the call:      *)
(*   x.proc  : *curproc,      x.live : the page directories in use,        *)
(*   x.ip, x.pgdir, x.sz, x.sp : the locals of the same names (0 = null),  *)
(*   x.n     : how many of the kernel calls that can fail were made,       *)
(*   x.log   : the kernel calls made so far, in order,                     *)
(*   x.ret   : the value exec returns.                                     *)
(* The kernel functions it calls are not part of the repository; each is   *)
(* kept by its contract.  env holds what the call meets: the file at path, *)
(* the lengths of the strings of argv, and env.fail, the number of the     *)
(* call that fails among readi, setupkvm, allocuvm, loaduvm and copyout    *)
(* (0 when none does).                                                     *)
(***************************************************************************)
MAXARG == 32
ELF_PROG_LOAD == 1
\* 0x464C457F
ELF_MAGIC == Word(287940, 1407)

\* a + b for two uint
AddW(a, b) == Add32(Word((a.pn + b.pn) % PageNumbers, a.off), b.off)

XCall(x, c, arg) == [x EXCEPT !.log = Append(@, [call |-> c, arg |-> arg])]

\* one more of the calls that can fail is made
Attempt(x) == [x EXCEPT !.n = @ + 1]
\* the call just made is the one that fails
Failed(x, env) == x.n = env.fail

\* setupkvm returns a page directory that is not in use
setupkvm(x) ==
    LET d == CHOOSE q \in 1 .. Cardinality(x.live) + 1 : q \notin x.live
    IN  [XCall(x, "setupkvm", d) EXCEPT !.pgdir = d, !.live = @ \cup {d}]

freevm(x, pgdir) == [XCall(x, "freevm", pgdir) EXCEPT !.live = @ \ {pgdir}]

\* what allocuvm(pgdir, oldsz, newsz) of xv6 returns: 0 for an address in the
\* kernel half or when memory runs out, oldsz when there is nothing to add
exec_allocuvm(failed, oldsz, newsz) ==
    IF ~Less32(newsz, KERNBASE) THEN U32(0)
    ELSE IF Less32(newsz, oldsz) THEN oldsz
    ELSE IF failed THEN U32(0)
    ELSE newsz

\* the label bad: lines 288-296
exec_bad(x) ==
    LET freed == IF x.pgdir # 0 THEN freevm(x, x.pgdir) ELSE x
    IN  [(IF freed.ip # 0
          THEN XCall(XCall(freed, "iunlockput", freed.ip), "end_op", 0)
          ELSE freed) EXCEPT !.ret = -1]

\* lines 249-271 with freevm(oldpgdir) ahead of the assignments
exec_commit_free_first(x, env, last) ==
    [XCall([freevm(x, x.proc.pgdir)
                EXCEPT !.proc = [pgdir |-> x.pgdir, sz |-> x.sz, eip |-> env.file.entry,
                                 esp |-> x.sp, name |-> last]],
           "switchuvm", x.pgdir) EXCEPT !.ret = 0]

\* lines 246-286: the process takes the new image, then the old one is freed
exec_commit(x, env, last) ==
    LET oldpgdir == x.proc.pgdir
        switched == [x EXCEPT !.proc = [pgdir |-> x.pgdir, sz |-> x.sz,
                                        eip |-> env.file.entry, esp |-> x.sp,
                                        name |-> last]]
    IN  [freevm(XCall(switched, "switchuvm", switched.proc.pgdir), oldpgdir)
            EXCEPT !.ret = 0]

\* lines 203-246: sp -= (3+argc+1) * 4, and the copyout of ustack
exec_ustack(x, env, argc) ==
    LET moved  == [x EXCEPT !.sp = Sub32(@, U32((3 + argc + 1) * 4))]
        copied == Attempt(XCall(moved, "copyout", moved.sp))
    IN  IF Failed(copied, env) THEN exec_bad(copied)
        ELSE exec_commit(copied, env, env.file.name)

\* w & ~3
AndNot3(w) == Word(w.pn, w.off - (w.off % 4))

\* lines 170-199, from argv[argc] on; env.argv[argc + 1] is strlen(argv[argc])
RECURSIVE exec_args(_, _, _)
exec_args(x, env, argc) ==
    LET moved  == [x EXCEPT !.sp = AndNot3(Sub32(@, U32(env.argv[argc + 1] + 1)))]
        copied == Attempt(XCall(moved, "copyout", moved.sp))
    IN  IF argc >= Len(env.argv) THEN exec_ustack(x, env, argc)
        ELSE IF argc >= MAXARG THEN exec_bad(x)
        ELSE IF Failed(copied, env) THEN exec_bad(copied)
        ELSE exec_args(copied, env, argc + 1)

\* lines 142-163: the two pages of the stack
exec_stack(x, env) ==
    LET tried  == Attempt(XCall(x, "allocuvm", PGROUNDUP(x.sz)))
        grown  == [tried EXCEPT !.sz = exec_allocuvm(Failed(tried, env), PGROUNDUP(x.sz),
                                                     Add32(PGROUNDUP(x.sz), 2 * PAGE_SIZE))]
    IN  IF grown.sz = U32(0) THEN exec_bad(grown)
        ELSE exec_args([XCall(grown, "clearpteu", Sub32(grown.sz, Word(2, 0)))
                            EXCEPT !.sp = grown.sz],
                       env, 0)

\* lines 133-135 without `ip = 0`
exec_release_keep_ip(x) == XCall(XCall(x, "iunlockput", x.ip), "end_op", 0)

\* lines 133-135
exec_release(x) == [XCall(XCall(x, "iunlockput", x.ip), "end_op", 0) EXCEPT !.ip = 0]

\* lines 65-130, from program header i on (the first one is 1)
RECURSIVE exec_segments(_, _, _)
exec_segments(x, env, i) ==
    LET ph     == env.file.ph[i]
        read   == Attempt(XCall(x, "readi", i))
        tried  == Attempt(XCall(read, "allocuvm", read.sz))
        grown  == [tried EXCEPT !.sz = exec_allocuvm(Failed(tried, env), read.sz,
                                                     AddW(ph.vaddr, ph.memsz))]
        loaded == Attempt(XCall(grown, "loaduvm", ph.vaddr))
    IN  IF i > Len(env.file.ph) THEN exec_stack(exec_release(x), env)
        ELSE IF Failed(read, env) THEN exec_bad(read)
        ELSE IF ph.type # ELF_PROG_LOAD THEN exec_segments(read, env, i + 1)
        ELSE IF Less32(ph.memsz, ph.filesz) THEN exec_bad(read)
        ELSE IF Less32(AddW(ph.vaddr, ph.memsz), ph.vaddr) THEN exec_bad(read)
        ELSE IF grown.sz = U32(0) THEN exec_bad(grown)
        ELSE IF ph.vaddr.off # 0 THEN exec_bad(grown)
        ELSE IF Failed(loaded, env) THEN exec_bad(loaded)
        ELSE exec_segments(loaded, env, i + 1)

\* lines 37-60: the inode is locked, the header read and the directory made
exec_load(x, env) ==
    LET locked == [XCall(x, "ilock", 1) EXCEPT !.ip = 1, !.pgdir = 0]
        read   == Attempt(XCall(locked, "readi", 0))
        tried  == Attempt(read)
    IN  IF Failed(read, env) THEN exec_bad(read)
        ELSE IF env.file.magic # ELF_MAGIC THEN exec_bad(read)
        ELSE IF Failed(tried, env) THEN exec_bad(XCall(tried, "setupkvm", 0))
        ELSE exec_segments([setupkvm(tried) EXCEPT !.sz = U32(0)], env, 1)

\* exec(path, argv) called by the process proc
exec(proc, live, env) ==
    LET x == [proc |-> proc, live |-> live, ip |-> 0, pgdir |-> 0, sz |-> U32(0),
              sp |-> U32(0), n |-> 0, ret |-> 0,
              log |-> <<[call |-> "begin_op", arg |-> 0]>>]
    IN  IF ~env.file.found
        THEN [XCall(x, "end_op", 0) EXCEPT !.ret = -1]
        ELSE exec_load(x, env)

\* a program header
ProgHdr(type, vaddr, memsz, filesz) ==
    [type |-> type, vaddr |-> vaddr, memsz |-> memsz, filesz |-> filesz]

\* an ELF file
ElfFile(name, magic, entry, ph) ==
    [found |-> TRUE, name |-> name, magic |-> magic, entry |-> entry, ph |-> ph]

\* what path names: no file; a file with a bad magic number; one loadable
\* segment, alone and after a header of another type; then a second segment
\* with memsz < filesz, a segment whose end wraps around, one that is not
\* page-aligned, one of size 0 and one in the kernel half
ExecFiles ==
    { [found |-> FALSE, name |-> "none", magic |-> U32(0), entry |-> U32(0), ph |-> << >>],
      ElfFile("text", U32(0), U32(0), << >>),
      ElfFile("ls", ELF_MAGIC, U32(0), <<ProgHdr(ELF_PROG_LOAD, U32(0), Word(1, 512), Word(1, 0))>>),
      ElfFile("sh", ELF_MAGIC, U32(16),
              <<ProgHdr(4, U32(0), U32(0), U32(0)),
                ProgHdr(ELF_PROG_LOAD, U32(0), U32(768), U32(256))>>),
      ElfFile("short", ELF_MAGIC, U32(0),
              <<ProgHdr(ELF_PROG_LOAD, U32(0), U32(256), U32(256)),
                ProgHdr(ELF_PROG_LOAD, Word(1, 0), U32(16), U32(32))>>),
      ElfFile("wrap", ELF_MAGIC, U32(0),
              <<ProgHdr(ELF_PROG_LOAD, Word(PageNumbers - 1, 0), Word(2, 0), U32(0))>>),
      ElfFile("odd", ELF_MAGIC, U32(0),
              <<ProgHdr(ELF_PROG_LOAD, U32(16), U32(256), U32(256))>>),
      ElfFile("zero", ELF_MAGIC, U32(0), <<ProgHdr(ELF_PROG_LOAD, U32(0), U32(0), U32(0))>>),
      ElfFile("high", ELF_MAGIC, U32(0),
              <<ProgHdr(ELF_PROG_LOAD, KERNBASE, U32(256), U32(256))>>) }

\* the lengths of the strings of argv: no argument, two, and MAXARG + 1
ExecArgvs == {<< >>, <<2, 5>>, [k \in 1 .. MAXARG + 1 |-> 1]}

\* the first process, as userinit leaves it: one page, eip = 0, esp = PGSIZE
InitExec ==
    /\ curproc = [pgdir |-> 1, sz |-> Word(1, 0), eip |-> U32(0), esp |-> Word(1, 0),
                  name |-> "initcode"]
    /\ kpgdirs = {1}
    /\ xev = [op |-> "init", file |-> "", argv |-> << >>, fail |-> 0, ret |-> 0,
              pgdir |-> 0, log |-> << >>]

\* exec(path, argv); xev.pgdir is the page directory the call made, 0 if none
Call_exec(file, argv, fail) ==
    \E r \in {exec(curproc, kpgdirs, [file |-> file, argv |-> argv, fail |-> fail])} :
        /\ curproc' = r.proc
        /\ kpgdirs' = r.live
        /\ xev' = [op |-> "exec", file |-> file.name, argv |-> argv, fail |-> fail,
                   ret |-> r.ret, pgdir |-> r.pgdir, log |-> r.log]
        /\ UNCHANGED <<swapVars, dirVars, loadVars, basicVars>>
Init == InitSwap /\ InitDir /\ InitLoad /\ InitBasic /\ InitExec

\* the swapping manager driven through VirtualMemorySystem
Next ==
    \/ \E content \in Values : create_file(content)
    \/ \E length \in MapLengths, fd \in Fds, offset \in Offsets :
          mmap(length, fd, offset, MaxPages)
    \/ \E addr \in Addrs(MaxPages), length \in UnmapLengths : munmap(addr, length)
    \/ \E addr \in Addrs(MaxPages), data \in Values : write_memory(addr, data, 1, MaxTime)
    \/ \E addr \in Addrs(MaxPages) : read_memory(addr, MaxTime)

Spec == Init /\ [][Next]_vars

\* one anonymous region of AnonPages pages
NextAnon ==
    \/ mmap(AnonPages * PAGE_SIZE, -1, 0, AnonPages)
    \/ munmap(FirstAddr, AnonPages * PAGE_SIZE)
    \/ \E addr \in Addrs(AnonPages), data \in Values : write_memory(addr, data, 1, AnonTime)
    \/ \E addr \in Addrs(AnonPages) : read_memory(addr, AnonTime)

SpecAnon == Init /\ [][NextAnon]_vars

\* writes of one or two bytes at the first and at the last byte of a page
WriteAddrs == Addrs(WritePages) \cup {a + PAGE_SIZE - 1 : a \in Addrs(WritePages)}
WriteSizes == {1, 2}

NextWrite ==
    \/ \E length \in MapLengths, fd \in Fds, offset \in Offsets :
          mmap(length, fd, offset, WritePages)
    \/ \E addr \in WriteAddrs, data \in Values, size \in WriteSizes :
          write_memory(addr, data, size, WriteTime)
    \/ \E addr \in WriteAddrs : read_memory(addr, WriteTime)

SpecWrite == Init /\ [][NextWrite]_vars

\* regions that stay mapped: with no munmap the clock reaches the accesses that
\* bring an evicted page back
NextSwap ==
    \/ \E content \in Values : create_file(content)
    \/ \E length \in MapLengths, fd \in Fds, offset \in Offsets :
          mmap(length, fd, offset, SwapPages)
    \/ \E addr \in Addrs(SwapPages), data \in Values : write_memory(addr, data, 1, SwapTime)
    \/ \E addr \in Addrs(SwapPages) : read_memory(addr, SwapTime)

SpecSwap == Init /\ [][NextSwap]_vars
\* the MMU of the swapping manager called directly
NextMMU ==
    \/ \E start_page \in VPages(MmuPages), num_pages \in 1 .. MmuPages,
          file_backed \in BOOLEAN :
          /\ start_page + num_pages <= FirstAddr \div PAGE_SIZE + MmuPages
          /\ Call_map_pages(start_page, num_pages, file_backed, 0)
    \/ \E start_page \in VPages(MmuPages) : Call_unmap_pages(start_page, 1)
    \/ \E addr \in Addrs(MmuPages), write_access \in BOOLEAN :
          Call_translate_address(addr, write_access, MmuTime)

SpecMMU == Init /\ [][NextMMU]_vars

\* the two-level page tables of page_table_directory.cpp
NextDir ==
    \/ \E pid \in Pids : create_process(pid)
    \/ \E pid \in Pids : switch_to_process(pid)
    \/ \E va \in DirVAs, flags \in DirFlags : map_memory(va, flags)
    \/ \E va \in DirVAs, value \in DirBytes : write_virtual(va, value)
    \/ \E va \in DirVAs : read_virtual(va)

SpecDir == Init /\ [][NextDir]_vars

\* the page tables of allocvm_and_loadvm_sim.cpp
NextLoad ==
    \/ \E va \in LoadVAs, size \in LoadSizes, pa \in LoadPAs, perm \in LoadPerms :
          Call_mappages(va, size, pa, perm)
    \/ \E oldsz \in LoadSzs, newsz \in LoadSzs : Call_allocuvm(oldsz, newsz)

SpecLoad == Init /\ [][NextLoad]_vars

\* allocvm_and_loadvm_sim.cpp with the walks and the loads: page_mgr maps a page
\* at one of the pages kalloc hands out, walks, allocates and loads
NextUvm ==
    \/ \E va \in UvmVAs, pa \in UvmPAs :
          Call_mappages(va, PAGE_SIZE, pa, BitOr(PTE_WRITE, PTE_USER))
    \/ \E oldsz \in LoadSzs, newsz \in LoadSzs : Call_allocuvm(oldsz, newsz)
    \/ \E va \in WalkVAs, alloc \in BOOLEAN : Call_walkpgdir(va, alloc)
    \/ \E va \in UvmVAs, offset \in FileOffsets, sz \in FileSizes :
          Call_loaduvm(va, offset, sz)

SpecUvm == Init /\ [][NextUvm]_vars

\* exec called again and again by the same process
NextExec ==
    \E file \in ExecFiles, argv \in ExecArgvs, fail \in 0 .. ExecCalls :
        Call_exec(file, argv, fail)

SpecExec == Init /\ [][NextExec]_vars

\* the manager of mmap.cpp driven through VirtualMemorySystem.  The lengths are
\* below and above one page; the files take one and two disk pages.
BasicLengths   == {PAGE_SIZE - 1, PAGE_SIZE + 1}
BasicOffsets   == {0, PAGE_SIZE}
BasicFileSizes == {45, PAGE_SIZE + 1}

NextBasic ==
    \/ \E content \in Values, size \in BasicFileSizes : Basic_create_file(content, size)
    \/ \E length \in BasicLengths, fd \in Fds, offset \in BasicOffsets :
          Basic_mmap(length, fd, offset, BasicPages)
    \/ \E addr \in Addrs(BasicPages), length \in UnmapLengths : Basic_munmap(addr, length)
    \/ \E addr \in Addrs(BasicPages), data \in Values : Basic_write_memory(addr, data)
    \/ \E addr \in Addrs(BasicPages) : Basic_read_memory(addr)

SpecBasic == Init /\ [][NextBasic]_vars

\* A run of either program: page_swapping_simulate.cpp or mmap.cpp.  The
\* lengths are below and above one page, and SIZE_MAX, which is kept as -1.
BothLengths == {PAGE_SIZE - 1, PAGE_SIZE + 1, -1}

\* no call of the other program has been made
SwapIdle  == ev.op = "init"
BasicIdle == mev.op = "init"

NextBoth ==
    \/ BasicIdle /\ \E content \in Values : create_file(content)
    \/ BasicIdle /\ \E length \in BothLengths, fd \in Fds, offset \in Offsets :
                        mmap(length, fd, offset, BothPages)
    \/ BasicIdle /\ \E addr \in Addrs(BothPages), length \in UnmapLengths :
                        munmap(addr, length)
    \/ BasicIdle /\ \E addr \in Addrs(BothPages), data \in Values :
                        write_memory(addr, data, 1, BothTime)
    \/ BasicIdle /\ \E addr \in Addrs(BothPages) : read_memory(addr, BothTime)
    \/ SwapIdle /\ \E content \in Values, size \in BasicFileSizes :
                       Basic_create_file(content, size)
    \/ SwapIdle /\ \E length \in BothLengths, fd \in Fds, offset \in BasicOffsets :
                       Basic_mmap(length, fd, offset, BothPages)
    \/ SwapIdle /\ \E addr \in Addrs(BothPages), length \in UnmapLengths :
                       Basic_munmap(addr, length)
    \/ SwapIdle /\ \E addr \in Addrs(BothPages), data \in Values :
                       Basic_write_memory(addr, data)
    \/ SwapIdle /\ \E addr \in Addrs(BothPages) : Basic_read_memory(addr)

SpecBoth == Init /\ [][NextBoth]_vars

\* A run of either program in which munmap is given ranges of one and two
\* pages, whether their pages are mapped or not.
NextUnmap ==
    \/ BasicIdle /\ \E length \in MapLengths, fd \in Fds, offset \in Offsets :
                        mmap(length, fd, offset, UnmapPages)
    \/ BasicIdle /\ \E addr \in Addrs(UnmapPages), length \in UnmapLengths :
                        munmap(addr, length)
    \/ BasicIdle /\ \E addr \in Addrs(UnmapPages), data \in Values :
                        write_memory(addr, data, 1, UnmapTime)
    \/ BasicIdle /\ \E addr \in Addrs(UnmapPages) : read_memory(addr, UnmapTime)
    \/ SwapIdle /\ \E length \in BasicLengths, fd \in Fds, offset \in Offsets :
                       Basic_mmap(length, fd, offset, UnmapPages)
    \/ SwapIdle /\ \E addr \in Addrs(UnmapPages), length \in UnmapLengths :
                       Basic_munmap(addr, length)
    \/ SwapIdle /\ \E addr \in Addrs(UnmapPages), data \in Values :
                       Basic_write_memory(addr, data)
    \/ SwapIdle /\ \E addr \in Addrs(UnmapPages) : Basic_read_memory(addr)

SpecUnmap == Init /\ [][NextUnmap]_vars

(***************************************************************************)
(* Properties of Part I                                                    *)
(***************************************************************************)
Present(v) == v \in DOMAIN page_table /\ page_table[v].present

\* the virtual pages the call recorded in e evicted
Evicted(e) == {e.log[i].arg : i \in {j \in 1 .. Len(e.log) : e.log[j].call = "MMU::evict_page"}}

\* the positions in e's log of the calls named c
Calls(e, c) == {i \in 1 .. Len(e.log) : e.log[i].call = c}

IsAccess(e) == e.op \in {"read_memory", "write_memory"} /\ e.ok

\* C1 : a successful read_memory of an address in a page that was written and
\* neither unmapped nor written again since returns the data of that write,
\* whatever was mapped, faulted in and evicted in between.
RoundTrip ==
    (ev.op = "read_memory" /\ ev.ok /\ PageOf(ev.addr) \in DOMAIN shadow)
        => ev.val = shadow[PageOf(ev.addr)]

\* C2 : no two distinct page-table entries with present = true hold the same
\* physical_page.
FrameUniqueness ==
    \A v, w \in DOMAIN page_table :
        (v # w /\ page_table[v].present /\ page_table[w].present)
            => page_table[v].physical_page # page_table[w].physical_page

\* two pages are resident and the last access took its frame from an evicted page
FrameReused ==
    /\ IsAccess(ev)
    /\ Evicted(ev) # {}
    /\ \E v, w \in DOMAIN page_table :
          v # w /\ page_table[v].present /\ page_table[w].present

\* C3 : no two distinct page-table entries with swapped = true hold the same
\* swap_slot.
SwapSlotUniqueness ==
    \A v, w \in DOMAIN page_table :
        (v # w /\ page_table[v].swapped /\ page_table[w].swapped)
            => page_table[v].swap_slot # page_table[w].swap_slot

\* C4 : a call evicts a page only when every frame is allocated, the page it
\* evicts is the resident page with the smallest last_access, and it is not the
\* page that the call before accessed.
LruEviction ==
    [][\A victim \in Evicted(ev') :
          /\ \A f \in Frames : allocated[f]
          /\ Present(victim)
          /\ \A w \in DOMAIN page_table :
                page_table[w].present
                    => page_table[victim].last_access <= page_table[w].last_access
          /\ IsAccess(ev) => victim # PageOf(ev.addr)]_vars

\* page w was the least recently used resident page when it was accessed (a hit,
\* one tick after the access to v), and the fault of the next call evicted v
LruAccessedSurvives ==
    /\ IsAccess(ev)
    /\ \E v \in Evicted(ev), w \in DOMAIN page_table :
          /\ v \in DOMAIN page_table
          /\ w \notin {v, PageOf(ev.addr)}
          /\ page_table[w].present
          /\ page_table[w].last_access = page_table[v].last_access + 1
          /\ page_table[PageOf(ev.addr)].last_access = page_table[w].last_access + 2

\* C5 : the eviction of a file-backed page written since it was loaded makes
\* exactly one Disk::write_page call, to the entry's disk_page and before the
\* frame is allocated to the faulting page; the eviction of a file-backed page
\* not written since it was loaded makes none.
DirtyWriteBack ==
    [][\A victim \in Evicted(ev') :
          (victim \in DOMAIN page_table /\ page_table[victim].file_backed)
              => IF victim \in written
                 THEN /\ Cardinality(Calls(ev', "Disk::write_page")) = 1
                      /\ \A i \in Calls(ev', "Disk::write_page") :
                            /\ ev'.log[i].arg = page_table[victim].disk_page
                            /\ \E k \in Calls(ev', "RAM::allocate_page") : i < k
                 ELSE Calls(ev', "Disk::write_page") = {}]_vars

\* the last access evicted a file-backed page and wrote it back
DirtyFileEvicted ==
    /\ IsAccess(ev)
    /\ \E v \in Evicted(ev) : v \in DOMAIN page_table /\ page_table[v].file_backed
    /\ Calls(ev, "Disk::write_page") # {}
    /\ Calls(ev, "RAM::allocate_page") # {}

\* the pages of the range [addr, addr + length)
RangePages(addr, length) == {PageOf(addr) + i : i \in 0 .. PagesNeeded(length) - 1}

\* C6 : munmap on a range none of whose pages is mapped returns a failure
\* status and leaves the page table, the frame bitmap and the swap bitmap
\* unchanged.
UnmapNotMapped ==
    [][(/\ ev'.op = "munmap"
        /\ RangePages(ev'.addr, ev'.length) \cap DOMAIN page_table = {})
          => /\ ev'.val # 0
             /\ page_table' = page_table
             /\ allocated' = allocated
             /\ allocated_slots' = allocated_slots]_vars

\* C7 : each entry with swapped = true holds a swap_slot that is a slot index
\* marked allocated in SwapSpace.
SwappedOwnsSlot ==
    \A v \in DOMAIN page_table :
        page_table[v].swapped
            => /\ page_table[v].swap_slot \in Slots
               /\ allocated_slots[page_table[v].swap_slot]

\* the fields of an entry that a rejected map_pages leaves as they are
EntryState(e) == <<e.present, e.dirty, e.swapped, e.physical_page, e.swap_slot>>

\* C8 : MMU::map_pages called on a range with a page that already has a
\* page-table entry is rejected and leaves the existing entries unchanged.
MapPagesRejectsMapped ==
    [][(/\ ev'.op = "MMU::map_pages"
        /\ \E v \in ev'.addr .. ev'.addr + ev'.length - 1 : v \in DOMAIN page_table)
          => /\ ~ev'.ok
             /\ \A v \in (ev'.addr .. ev'.addr + ev'.length - 1) \cap DOMAIN page_table :
                   /\ v \in DOMAIN page_table'
                   /\ EntryState(page_table'[v]) = EntryState(page_table[v])]_vars

\* the positions in e's log of the store calls whose page id is out of range
OutOfRangeCalls(e) ==
    {i \in 1 .. Len(e.log) :
        \/ /\ e.log[i].call \in {"Disk::read_page", "Disk::write_page"}
           /\ ~DiskInRange(e.log[i].arg)
        \/ /\ e.log[i].call \in {"SwapSpace::read_page", "SwapSpace::write_page"}
           /\ ~ULess(e.log[i].arg, SWAP_SIZE \div PAGE_SIZE)}

\* C11 : a read_memory or write_memory during which a Disk or SwapSpace page
\* access named a page id outside the store's range reports failure.
StoreBoundsFails ==
    (ev.op \in {"read_memory", "write_memory"} /\ OutOfRangeCalls(ev) # {}) => ~ev.ok

\* C12 : read_memory or write_memory on an address whose virtual page has no
\* page-table entry fails and leaves the page table, the frame bitmap, the swap
\* bitmap and current_time unchanged.
UnmappedAccessFails ==
    [][(/\ ev'.op \in {"read_memory", "write_memory"}
        /\ PageOf(ev'.addr) \notin DOMAIN page_table)
          => /\ ~ev'.ok
             /\ page_table' = page_table
             /\ allocated' = allocated
             /\ allocated_slots' = allocated_slots
             /\ current_time' = current_time]_vars

\* an access to an unmapped page failed while other pages are mapped and resident
UnmappedAccessRefused ==
    /\ ev.op \in {"read_memory", "write_memory"}
    /\ ~ev.ok
    /\ PageOf(ev.addr) \notin DOMAIN page_table
    /\ \E v \in DOMAIN page_table : page_table[v].present
    /\ current_time > 0

\* C14 : a successful mmap adds the entries of the pages of its region and
\* nothing else does; munmap leaves no entry for a page of the range it is given,
\* so that the page table is empty once each region has been unmapped in its
\* full length; and whenever the page table is empty after regions were
\* created, every physical frame and every swap slot is free.
UnmapReleasesAll ==
    [][/\ ev'.op = "mmap" /\ ev'.ok
             => DOMAIN page_table'
                    = DOMAIN page_table \cup RangePages(ev'.val, ev'.length)
       /\ ev'.op = "munmap"
             => DOMAIN page_table'
                    = DOMAIN page_table \ RangePages(ev'.addr, ev'.length)
       /\ ev'.op \notin {"mmap", "munmap"}
             => DOMAIN page_table' = DOMAIN page_table
       /\ page_table' = << >>
             => /\ \A f \in Frames : ~allocated'[f]
                /\ \A i \in Slots : ~allocated_slots'[i]]_vars

\* every page handed out was mapped, the last region has just been unmapped,
\* and that munmap released both a frame and a swap slot
AllRegionsReleased ==
    /\ ev.op = "munmap"
    /\ page_table = << >>
    /\ next_virtual_addr = FirstAddr + MaxPages * PAGE_SIZE
    /\ Calls(ev, "RAM::free_page") # {}
    /\ Calls(ev, "SwapSpace::free_slot") # {}

\* C15 : a successful write_memory(addr, data, size) leaves every mapped page
\* that overlaps [addr, addr + size) resident and dirty with the data in its
\* frame, and leaves the frame of every other resident page as it was.
WriteMarksDirty ==
    [][(ev'.op = "write_memory" /\ ev'.ok)
          => /\ \A v \in SpanPages(ev'.addr, ev'.length) \cap DOMAIN page_table' :
                   /\ page_table'[v].present
                   /\ page_table'[v].dirty
                   /\ memory'[page_table'[v].physical_page] = ev'.val
             /\ \A w \in DOMAIN page_table' \ SpanPages(ev'.addr, ev'.length) :
                   (/\ Present(w)
                    /\ page_table'[w].present
                    /\ page_table'[w].physical_page = page_table[w].physical_page)
                       => memory'[page_table'[w].physical_page]
                              = memory[page_table[w].physical_page]]_vars

\* C22 : an entry with dirty = true has present = true, and a page that a call
\* evicted is left by the call with dirty = false.
DirtyIsResident ==
    /\ \A v \in DOMAIN page_table : page_table[v].dirty => page_table[v].present
    /\ \A v \in Evicted(ev) \cap DOMAIN page_table : ~page_table[v].dirty

\* the last access evicted a page written since it was loaded, while another
\* page is resident and dirty
DirtyPageEvicted ==
    /\ IsAccess(ev)
    /\ \E v \in Evicted(ev) \cap written :
          v \in DOMAIN page_table /\ ~page_table[v].present
    /\ \E w \in DOMAIN page_table : page_table[w].dirty
\* C23 : no entry has present = true and swapped = true together, and no call
\* changes the file_backed flag or the disk_page of an entry that it leaves in
\* the page table.
ResidentOrSwapped ==
    /\ [](\A v \in DOMAIN page_table : ~(page_table[v].present /\ page_table[v].swapped))
    /\ [][\A v \in DOMAIN page_table \cap DOMAIN page_table' :
             /\ page_table'[v].file_backed = page_table[v].file_backed
             /\ page_table'[v].disk_page = page_table[v].disk_page]_vars

\* the last access brought a page back from its swap slot while a file-backed
\* page is mapped: the page is resident and no longer swapped
SwappedPageReloaded ==
    /\ IsAccess(ev)
    /\ Calls(ev, "SwapSpace::read_page") # {}
    /\ page_table[PageOf(ev.addr)].present
    /\ ~page_table[PageOf(ev.addr)].swapped
    /\ \E w \in DOMAIN page_table : page_table[w].file_backed
\* C24 : a call that evicts an anonymous page leaves the entry with
\* swapped = true and with a swap_slot that is a slot index marked allocated,
\* and that slot holds what the page's frame held before the call.
AnonymousEvictionSwapsOut ==
    [][\A victim \in Evicted(ev') :
          (/\ Present(victim)
           /\ ~page_table[victim].file_backed
           /\ victim \in DOMAIN page_table')
              => /\ page_table'[victim].swapped
                 /\ page_table'[victim].swap_slot \in Slots
                 /\ allocated_slots'[page_table'[victim].swap_slot]
                 /\ swap_storage'[page_table'[victim].swap_slot]
                        = memory[page_table[victim].physical_page]]_vars
\* C25 : a successful read_memory of a page that is not resident returns what
\* the page's backing holds when the call ends: the content of the entry's swap
\* slot, which the call frees, when the entry is swapped; the content of the
\* entry's disk page when it is file-backed; and zero for an anonymous page that
\* is not swapped, whatever the frame held before.
FaultPopulatesFrame ==
    [][(/\ ev'.op = "read_memory"
        /\ ev'.ok
        /\ PageOf(ev'.addr) \in DOMAIN page_table
        /\ ~page_table[PageOf(ev'.addr)].present)
          => IF page_table[PageOf(ev'.addr)].swapped
             THEN /\ page_table[PageOf(ev'.addr)].swap_slot \in Slots
                  /\ ev'.val = swap_storage'[page_table[PageOf(ev'.addr)].swap_slot]
                  /\ ~allocated_slots'[page_table[PageOf(ev'.addr)].swap_slot]
             ELSE IF page_table[PageOf(ev'.addr)].file_backed
                  THEN /\ page_table[PageOf(ev'.addr)].disk_page \in DiskPageIds
                       /\ ev'.val = storage'[page_table[PageOf(ev'.addr)].disk_page]
                  ELSE ev'.val = 0]_vars
\* C26 : a read_memory or write_memory of a mapped page that is not resident,
\* made when every frame is allocated, succeeds with exactly one eviction: the
\* victim is no longer resident, the accessed page is resident in the frame the
\* victim held, and every other resident page is still resident in its frame.
FaultReusesVictimFrame ==
    [][(/\ ev'.op \in {"read_memory", "write_memory"}
        /\ PageOf(ev'.addr) \in DOMAIN page_table
        /\ ~page_table[PageOf(ev'.addr)].present
        /\ \A f \in Frames : allocated[f])
          => /\ ev'.ok
             /\ Cardinality(Calls(ev', "MMU::evict_page")) = 1
             /\ \A victim \in Evicted(ev') :
                   /\ Present(victim)
                   /\ ~page_table'[victim].present
                   /\ page_table'[PageOf(ev'.addr)].present
                   /\ page_table'[PageOf(ev'.addr)].physical_page
                          = page_table[victim].physical_page
                   /\ \A w \in DOMAIN page_table \ {victim} :
                         page_table[w].present
                             => /\ page_table'[w].present
                                /\ page_table'[w].physical_page
                                       = page_table[w].physical_page]_vars

\* the last access evicted the page in the second frame and took that frame,
\* while the page in the first frame stayed where it was
SecondFrameReused ==
    /\ IsAccess(ev)
    /\ Cardinality(Calls(ev, "MMU::evict_page")) = 1
    /\ page_table[PageOf(ev.addr)].present
    /\ page_table[PageOf(ev.addr)].physical_page = 1
    /\ \E w \in DOMAIN page_table \ {PageOf(ev.addr)} :
          page_table[w].present /\ page_table[w].physical_page = 0
\* C27 : current_time never decreases, each successful read_memory or
\* write_memory (one successful translate_address) increases it, and no two
\* resident pages have the same last_access.
ClockOrdersAccesses ==
    /\ [](\A v, w \in DOMAIN page_table :
             (v # w /\ page_table[v].present /\ page_table[w].present)
                 => page_table[v].last_access # page_table[w].last_access)
    /\ [][/\ current_time' >= current_time
          /\ (ev'.op \in {"read_memory", "write_memory"} /\ ev'.ok)
                => /\ current_time' > current_time
                   /\ page_table'[PageOf(ev'.addr)].last_access = current_time']_vars

\* the last access hit a resident page while another page, loaded by the call
\* before, is resident
HitAfterFault ==
    /\ IsAccess(ev)
    /\ Calls(ev, "RAM::allocate_page") = {}
    /\ \E w \in DOMAIN page_table \ {PageOf(ev.addr)} :
          /\ page_table[w].present
          /\ page_table[w].last_access = current_time - 1
\* C29 : a munmap of the swapping manager frees the frame of each resident page
\* it removes, writing to no swap slot and, unless the page is dirty and
\* file-backed, to no disk page; it calls SwapSpace::free_slot with the swap_slot
\* of each swapped page it removes, which leaves that slot free; and it leaves no
\* entry for a page of its range.
UnmapAnonymousDrops ==
    [][ev'.op = "munmap"
          => /\ swap_storage' = swap_storage
             /\ (\A v \in RangePages(ev'.addr, ev'.length) \cap DOMAIN page_table :
                    ~(page_table[v].present /\ page_table[v].dirty
                          /\ page_table[v].file_backed))
                   => /\ storage' = storage
                      /\ Calls(ev', "Disk::write_page") = {}
             /\ Calls(ev', "SwapSpace::write_page") = {}
             /\ \A v \in RangePages(ev'.addr, ev'.length) \cap DOMAIN page_table :
                   /\ v \notin DOMAIN page_table'
                   /\ page_table[v].present => ~allocated'[page_table[v].physical_page]
                   /\ page_table[v].swapped
                         => /\ \E i \in Calls(ev', "SwapSpace::free_slot") :
                                  ev'.log[i].arg = page_table[v].swap_slot
                            /\ page_table[v].swap_slot \in Slots
                                  => ~allocated_slots'[page_table[v].swap_slot]]_vars

\* the last munmap, of a range of two pages, freed a frame that holds written
\* data and a swap slot, and nothing was ever written to the disk
DirtyAndSwappedUnmapped ==
    /\ ev.op = "munmap"
    /\ ev.length = PAGE_SIZE + 1
    /\ wrote
    /\ \E i \in Calls(ev, "RAM::free_page") : memory[ev.log[i].arg] \in Values
    /\ Calls(ev, "SwapSpace::free_slot") # {}
    /\ Calls(ev, "Disk::write_page") = {}
    /\ \A d \in DiskPageIds : storage[d] = 0
\* C36 : a read_memory or write_memory of an address in a mapped page succeeds.
MappedAccessSucceeds ==
    [][(/\ ev'.op \in {"read_memory", "write_memory"}
        /\ PageOf(ev'.addr) \in DOMAIN page_table)
          => ev'.ok]_vars

\* the last access found its page swapped out and no frame free, and succeeded
\* after an eviction
SwappedPageFaultServed ==
    /\ IsAccess(ev)
    /\ Calls(ev, "MMU::evict_page") # {}
    /\ Calls(ev, "SwapSpace::free_slot") # {}
    /\ \A f \in Frames : allocated[f]

\* C37 : the number of allocated frames is the number of entries with
\* present = true, and the number of allocated swap slots is the number of
\* entries with swapped = true.
FramesAndSlotsCounted ==
    /\ Cardinality({f \in Frames : allocated[f]})
           = Cardinality({v \in DOMAIN page_table : page_table[v].present})
    /\ Cardinality({i \in Slots : allocated_slots[i]})
           = Cardinality({v \in DOMAIN page_table : page_table[v].swapped})

\* C38 : for each allocated frame f, frame_to_page[f] names an entry of the page
\* table that is present with physical_page = f, and a frame that is not
\* allocated has no back-reference.
BackReferenceValid ==
    \A f \in Frames :
        IF allocated[f]
        THEN /\ frame_to_page[f] \in DOMAIN page_table
             /\ page_table[frame_to_page[f]].present
             /\ page_table[frame_to_page[f]].physical_page = f
        ELSE frame_to_page[f] = nullptr

\* the last munmap freed the frame of a resident page while another page is
\* resident and a third one is swapped out
ResidentPageUnmapped ==
    /\ ev.op = "munmap"
    /\ Calls(ev, "RAM::free_page") # {}
    /\ \E f \in Frames : allocated[f]
    /\ \E f \in Frames : ~allocated[f]
    /\ \E v \in DOMAIN page_table : page_table[v].swapped

\* C39 : a file-backed entry has swapped = false and the swap_slot it was
\* created with, and no call makes a SwapSpace call for a file-backed page: an
\* access that loads a file-backed page reads no swap slot, and a call that
\* evicts only file-backed pages allocates and writes none.
FileBackedNeverSwapped ==
    /\ [](\A v \in DOMAIN page_table :
             page_table[v].file_backed
                 => ~page_table[v].swapped /\ page_table[v].swap_slot = 0)
    /\ [][/\ (/\ ev'.op \in {"read_memory", "write_memory"}
              /\ PageOf(ev'.addr) \in DOMAIN page_table
              /\ page_table[PageOf(ev'.addr)].file_backed)
                => Calls(ev', "SwapSpace::read_page") = {}
          /\ (\A v \in Evicted(ev') : v \in DOMAIN page_table /\ page_table[v].file_backed)
                => /\ Calls(ev', "SwapSpace::allocate_slot") = {}
                   /\ Calls(ev', "SwapSpace::write_page") = {}]_vars

\* the last access evicted a file-backed page that was not dirty, which went
\* neither to the disk nor to the swap space, while an anonymous page is resident
CleanFileEvicted ==
    /\ IsAccess(ev)
    /\ \E v \in Evicted(ev) : v \in DOMAIN page_table /\ page_table[v].file_backed
    /\ Calls(ev, "Disk::write_page") = {}
    /\ Calls(ev, "SwapSpace::write_page") = {}
    /\ \E w \in DOMAIN page_table : ~page_table[w].file_backed /\ page_table[w].present

(***************************************************************************)
(* Properties of Part II                                                   *)
(***************************************************************************)
\* the page-table entry of va under the directory of ptm, 0 without a page table
DirEntry(pm, ptm, va) ==
    LET pde == PhysicalMemory_read_uint32(pm, Add32(ptm.page_directory_phys, PDX(va) * 4))
    IN  IF ~HasFlag(pde, PTE_PRESENT) THEN U32(0)
        ELSE PhysicalMemory_read_uint32(pm, Add32(PTE_ADDR(pde), PTX(va) * 4))

\* C9 : PageTableManager::map_page called (by map_memory) on a virtual address
\* whose page-table entry is present fails and leaves the entry unchanged.
MapPageRejectsPresent ==
    [][(/\ dev'.op = "map_memory"
        /\ dev'.cur # nullptr
        /\ current_pid \in DOMAIN processes
        /\ HasFlag(DirEntry(phys_mem, processes[current_pid], dev'.va), PTE_PRESENT))
          => /\ ~dev'.ok
             /\ DirEntry(phys_mem', processes'[current_pid], dev'.va)
                    = DirEntry(phys_mem, processes[current_pid], dev'.va)]_vars

\* C20 : switch_to_process changes no process's page directory or page tables
\* and no page of physical memory; current_pid becomes the pid given or stays.
SwitchKeepsMemory ==
    [][dev'.op = "switch_to_process"
          => /\ processes' = processes
             /\ phys_mem' = phys_mem
             /\ current_pid' \in {current_pid, dev'.val}]_vars

\* the last call switched to another process from one that has a page mapped
SwitchFromMapped ==
    /\ dev.op = "switch_to_process"
    /\ dev.ok
    /\ dev.cur # nullptr
    /\ dev.cur # current_pid
    /\ \E va \in DirVAs :
          HasFlag(DirEntry(phys_mem, processes[dev.cur], va), PTE_PRESENT)

\* the physical address that va translates to in process q
Translation(pm, procs, q, va) == PageTableManager_translate_address(pm, procs[q], va)

\* C21 : current_pid changes only in a successful switch_to_process, to the pid
\* it names; map_memory, write_virtual and read_virtual act on the process
\* current_pid names, and read_virtual and write_virtual succeed exactly when
\* the address translates in that process; and no call other than
\* create_process(q) changes, for a process q that is not the current one,
\* whether and where an address translates in q or the byte q reads there.
ProcessIsolation ==
    [][/\ current_pid' # current_pid
             => dev'.op = "switch_to_process" /\ dev'.ok /\ current_pid' = dev'.val
       /\ dev'.op \in {"map_memory", "write_virtual", "read_virtual"}
             => /\ dev'.cur = IF current_pid \in DOMAIN processes THEN current_pid
                              ELSE nullptr
                /\ (dev'.op # "map_memory" /\ current_pid \in DOMAIN processes)
                      => dev'.ok = (Translation(phys_mem, processes, current_pid, dev'.va)
                                        # InvalidAddress)
                /\ (dev'.op = "read_virtual" /\ dev'.ok)
                      => dev'.val = PhysicalMemory_read_byte(
                                        phys_mem,
                                        Translation(phys_mem, processes, current_pid, dev'.va))
       /\ \/ phys_mem' = phys_mem /\ processes' = processes
          \/ \A q \in (DOMAIN processes \cap DOMAIN processes') \ {current_pid} :
                (dev'.op = "create_process" => dev'.val # q)
                   => \A va \in DirVAs :
                         /\ Translation(phys_mem', processes', q, va)
                                = Translation(phys_mem, processes, q, va)
                         /\ PhysicalMemory_read_byte(
                                phys_mem', Translation(phys_mem, processes, q, va))
                                = PhysicalMemory_read_byte(
                                      phys_mem, Translation(phys_mem, processes, q, va))]_vars

\* the current process has a page of its own mapped, and its read of an address
\* that only another process has mapped, and has written, has just faulted
OtherProcessPageFaults ==
    /\ dev.op = "read_virtual"
    /\ ~dev.ok
    /\ current_pid \in DOMAIN processes
    /\ \E va \in DirVAs :
          Translation(phys_mem, processes, current_pid, va) # InvalidAddress
    /\ \E q \in DOMAIN processes \ {current_pid} :
          /\ Translation(phys_mem, processes, q, dev.va) # InvalidAddress
          /\ PhysicalMemory_read_byte(
                 phys_mem, Translation(phys_mem, processes, q, dev.va)) \in DirBytes

\* the offsets of the first, the second and the last byte of a page
PageOffsets == {0, 1, PAGE_SIZE - 1}

\* C30 : after a map_memory of va, which calls map_page(va, pa, flags) with a
\* newly allocated page pa, every address of va's page translates to pa plus
\* its offset, and the entry of index va's bits 21-12 in the page table that
\* the directory entry of index va's bits 31-22 names holds pa; an address
\* that does not translate in a process translates later only in a page that a
\* map_memory of that process has mapped since; no address translates in a
\* process just created; and a read_virtual or write_virtual of an address
\* that does not translate leaves the physical memory as it is.
TranslateAfterMap ==
    [][/\ (dev'.op = "map_memory" /\ dev'.ok)
             => /\ \A off \in PageOffsets :
                      Translation(phys_mem', processes', dev'.cur,
                                  Word(dev'.va.pn, off))
                          = Add32(phys_mem.next_free_page, off)
                /\ PTE_ADDR(PhysicalMemory_read_uint32(
                       phys_mem',
                       Add32(PTE_ADDR(PhysicalMemory_read_uint32(
                                 phys_mem',
                                 Add32(processes'[dev'.cur].page_directory_phys,
                                       (dev'.va.pn \div PTE_ENTRIES) * 4))),
                             (dev'.va.pn % PTE_ENTRIES) * 4)))
                       = phys_mem.next_free_page
       /\ \/ phys_mem' = phys_mem /\ processes' = processes
          \/ \A q \in DOMAIN processes \cap DOMAIN processes' :
                \A va \in DirVAs :
                   (/\ Translation(phys_mem, processes, q, va) = InvalidAddress
                    /\ Translation(phys_mem', processes', q, va) # InvalidAddress)
                       => /\ dev'.op = "map_memory"
                          /\ dev'.cur = q
                          /\ dev'.va.pn = va.pn
       /\ dev'.op = "create_process"
             => \A va \in DirVAs :
                   Translation(phys_mem', processes', dev'.val, va) = InvalidAddress
       /\ (dev'.op \in {"read_virtual", "write_virtual"} /\ ~dev'.ok)
             => /\ phys_mem' = phys_mem
                /\ processes' = processes]_vars

\* the current process has just mapped a second page under a page table it
\* already had, and a third address does not translate in it
SecondPageOfTable ==
    /\ dev.op = "map_memory"
    /\ dev.ok
    /\ current_pid \in DOMAIN processes
    /\ \E va \in DirVAs \ {dev.va} :
          /\ PDX(va) = PDX(dev.va)
          /\ Translation(phys_mem, processes, current_pid, va) # InvalidAddress
          /\ Translation(phys_mem, processes, current_pid, va)
                 # Translation(phys_mem, processes, current_pid, dev.va)
    /\ \E va \in DirVAs :
          Translation(phys_mem, processes, current_pid, va) = InvalidAddress
\* C40 : a switch_to_process of a pid that has no process leaves current_pid
\* as it is; create_process leaves current_pid as it is; and while current_pid
\* is -1, map_memory, write_virtual and read_virtual find no current process
\* and leave the physical memory and the processes as they are.
NoCurrentProcess ==
    [][/\ (dev'.op = "switch_to_process" /\ dev'.val \notin DOMAIN processes)
             => ~dev'.ok /\ current_pid' = current_pid
       /\ dev'.op = "create_process" => current_pid' = current_pid
       /\ (/\ dev'.op \in {"map_memory", "write_virtual", "read_virtual"}
           /\ current_pid = NoPid)
             => /\ dev'.cur = nullptr
                /\ ~dev'.ok
                /\ phys_mem' = phys_mem
                /\ processes' = processes
                /\ current_pid' = current_pid]_vars

\* map_memory was called, and did nothing, after a process was created and
\* before any process was switched to
MapBeforeSwitch ==
    /\ dev.op = "map_memory"
    /\ dev.cur = nullptr
    /\ current_pid = NoPid
    /\ DOMAIN processes # {}
    /\ DOMAIN phys_mem.pages = {processes[q].page_directory_phys : q \in DOMAIN processes}

(***************************************************************************)
(* Properties of Part III                                                  *)
(***************************************************************************)
\* the page-table entry of va as walkpgdir finds it, 0 without a page table
LoadEntry(rm, va) ==
    LET w == walkpgdir(rm, page_directory_phys, va, FALSE)
    IN  IF w.found THEN w.pte_storage ELSE U32(0)

\* the pages mappages(va, size, ...) goes through
LoadRange(va, size) == {Word(n, 0) : n \in va.pn .. Add32(va, size - 1).pn}

\* C10 : mappages returns -1 when a page of its range has a present entry, and
\* no call changes an entry that was present.
MappagesNoRemap ==
    [][/\ (/\ lev'.op = "mappages"
           /\ \E a \in LoadRange(lev'.va, lev'.size) :
                 HasFlag(LoadEntry(ram, a), PTE_PRESENT))
             => lev'.ret = -1
       /\ lev'.op \in {"mappages", "allocuvm"}
             => \A a \in LoadVAs \cup {Word(n, 0) : n \in {v.pn + 1 : v \in LoadVAs}} :
                   HasFlag(LoadEntry(ram, a), PTE_PRESENT)
                       => LoadEntry(ram', a) = LoadEntry(ram, a)]_vars

\* a mappages call was refused and the entry it met is present
MappagesRefused ==
    /\ lev.op = "mappages"
    /\ lev.ret = -1
    /\ \E a \in LoadRange(lev.va, lev.size) : HasFlag(LoadEntry(ram, a), PTE_PRESENT)

(***************************************************************************)
(* Properties of Part III, continued                                       *)
(***************************************************************************)
\* the page-directory entry of va
LoadDirEntry(rm, va) == ram_read_uint32(rm, Add32(page_directory_phys, PDX(va) * 4))

\* C31 : walkpgdir(va, false) of an address whose directory entry is not
\* present returns nullptr and leaves the physical memory as it is; with
\* alloc = true it allocates exactly one page, makes the directory entry of va
\* refer to it, leaves the other directory entries as they are, and a walk of
\* any address under the same directory entry made next allocates nothing.
WalkAllocatesOnce ==
    [][(/\ lev'.op = "walkpgdir"
        /\ ~HasFlag(LoadDirEntry(ram, lev'.va), PTE_PRESENT))
          => IF ~lev'.alloc
             THEN lev'.ret = 0 /\ ram' = ram
             ELSE /\ lev'.ret = 1
                  /\ ram.next_free_page \notin DOMAIN ram.pages
                  /\ DOMAIN ram'.pages = DOMAIN ram.pages \cup {ram.next_free_page}
                  /\ LoadDirEntry(ram', lev'.va) = TableEntry(ram.next_free_page)
                  /\ \A va \in WalkVAs :
                        IF PDX(va) # PDX(lev'.va)
                        THEN LoadDirEntry(ram', va) = LoadDirEntry(ram, va)
                        ELSE \A alloc \in BOOLEAN :
                                walkpgdir(ram', page_directory_phys, va, alloc).ram = ram']_vars

\* a walk with alloc = true has made the page table of 0x00400000 while the
\* page table of the segments exists
SecondTableAllocated ==
    /\ lev.op = "walkpgdir"
    /\ lev.alloc
    /\ lev.kallocs = 1
    /\ PDX(lev.va) = 1
    /\ \E va \in UvmVAs : HasFlag(LoadDirEntry(ram, va), PTE_PRESENT)

\* C32 : every entry allocuvm installs refers to the page kalloc returned for
\* it, and when allocuvm has succeeded and the loaduvm(va, file, offset, sz) that
\* follows returns 0, byte i of the file from offset on is the byte at va + i
\* of the page allocated for that address, for every i < sz.
AllocuvmMapsLoadedPages ==
    [][/\ lev'.op = "allocuvm"
             => \A k \in 1 .. Len(lev'.log) :
                   PTE_ADDR(LoadEntry(ram', lev'.log[k].a)) = lev'.log[k].mem
       /\ (/\ lev.op = "allocuvm"
           /\ lev.ret # U32(0)
           /\ lev'.op = "loaduvm"
           /\ lev'.ret = 0)
             => \A k \in 1 .. Len(lev.log) : \A i \in 0 .. lev'.size - 1 :
                   PTE_ADDR(Add32(lev'.va, i)) = lev.log[k].a
                       => ram_read_byte(ram', Add32(lev.log[k].mem, Add32(lev'.va, i).off))
                              = program_file(lev'.offset + i)]_vars

\* C33 : an allocuvm that returns 0 leaves the pages of the physical memory,
\* the page tables among them, as they were before the call.
AllocuvmFailureUndone ==
    [][(lev'.op = "allocuvm" /\ lev'.ret = U32(0)) => ram'.pages = ram.pages]_vars

(***************************************************************************)
(* Properties of Part IV                                                   *)
(***************************************************************************)
\* C16 : munmap of a resident page of a file-backed mapping that write_memory
\* has written calls Disk::write_page for the entry's disk_page before it frees
\* the frame, and the disk page then holds what the frame held.
WriteBackOnUnmap ==
    [][mev'.op = "munmap"
          => \A v \in RangePages(mev'.addr, mev'.length) \cap DOMAIN mm_page_table :
                (/\ mm_page_table[v].present
                 /\ mm_page_table[v].file_backed
                 /\ v \in mm_written
                 /\ Basic_DiskInRange(mm_page_table[v].disk_page))
                    => /\ \E i \in Calls(mev', "Disk::write_page"),
                             k \in Calls(mev', "RAM::free_page") :
                             /\ i < k
                             /\ mev'.log[i].arg = mm_page_table[v].disk_page
                             /\ mev'.log[k].arg = mm_page_table[v].physical_page
                       /\ (\A w \in RangePages(mev'.addr, mev'.length)
                                     \cap DOMAIN mm_page_table :
                              w # v => mm_page_table[w].disk_page
                                           # mm_page_table[v].disk_page)
                             => mm_storage'[mm_page_table[v].disk_page]
                                    = mm_memory[mm_page_table[v].physical_page]]_vars

\* C17 : an access to a mapped page that is not resident, made when every frame
\* is allocated, fails and leaves the page table and the frame bitmap unchanged.
FaultWithoutFrameFails ==
    [][(/\ mev'.op \in {"read_memory", "write_memory"}
        /\ PageOf(mev'.addr) \in DOMAIN mm_page_table
        /\ ~mm_page_table[PageOf(mev'.addr)].present
        /\ \A f \in BasicFrameIds : mm_allocated[f])
          => /\ ~mev'.ok
             /\ mm_page_table' = mm_page_table
             /\ mm_allocated' = mm_allocated]_vars

\* an access to a mapped page has failed with every frame allocated
FaultRefused ==
    /\ mev.op \in {"read_memory", "write_memory"}
    /\ ~mev.ok
    /\ PageOf(mev.addr) \in DOMAIN mm_page_table
    /\ ~mm_page_table[PageOf(mev.addr)].present
    /\ \A f \in BasicFrameIds : mm_allocated[f]

(***************************************************************************)
(* Properties of both managers                                             *)
(***************************************************************************)
BasicPresent(v) == v \in DOMAIN mm_page_table /\ mm_page_table[v].present

RegionPages(length) == IF length < 0 THEN 1 ELSE PagesNeeded(length)

\* C18 : in either manager the cursor next_virtual_addr never decreases, and an
\* mmap with length > 0 returns a page-aligned address at or above the cursor
\* and leaves the cursor at or above the end of the region's pages.  (Every
\* region returned earlier, released or not, lies below the cursor, so the page
\* ranges of two regions are disjoint and no released range is returned again.)
MmapDisjoint ==
    [][/\ next_virtual_addr' >= next_virtual_addr
       /\ (ev'.op = "mmap" /\ ev'.ok /\ ev'.length # 0)
             => /\ ev'.val % PAGE_SIZE = 0
                /\ ev'.val >= next_virtual_addr
                /\ next_virtual_addr' >= ev'.val + RegionPages(ev'.length) * PAGE_SIZE
       /\ mm_next_virtual_addr' >= mm_next_virtual_addr
       /\ (mev'.op = "mmap" /\ mev'.ok /\ mev'.length # 0)
             => /\ mev'.val % PAGE_SIZE = 0
                /\ mev'.val >= mm_next_virtual_addr
                /\ mm_next_virtual_addr'
                       >= mev'.val + RegionPages(mev'.length) * PAGE_SIZE]_vars

UnmapSkipsGaps ==
    [][/\ ev'.op = "munmap"
             => /\ ev'.val = 0
                /\ DOMAIN page_table' = DOMAIN page_table \ RangePages(ev'.addr, ev'.length)
                /\ \A v \in RangePages(ev'.addr, ev'.length) \cap DOMAIN page_table :
                      /\ page_table[v].present
                            => ~allocated'[page_table[v].physical_page]
                      /\ (page_table[v].swapped /\ page_table[v].swap_slot \in Slots)
                            => ~allocated_slots'[page_table[v].swap_slot]
                /\ \A w \in DOMAIN page_table' : page_table'[w] = page_table[w]
       /\ mev'.op = "munmap"
             => /\ mev'.val = 0
                /\ DOMAIN mm_page_table'
                       = DOMAIN mm_page_table \ RangePages(mev'.addr, mev'.length)
                /\ \A v \in RangePages(mev'.addr, mev'.length) \cap DOMAIN mm_page_table :
                      mm_page_table[v].present
                          => ~mm_allocated'[mm_page_table[v].physical_page]
                /\ \A w \in DOMAIN mm_page_table' :
                      mm_page_table'[w] = mm_page_table[w]]_vars

\* the last munmap was given the last page that mmap can hand out and the page
\* behind it, which is never mapped: it freed the swap slot of the one and
\* skipped the other, and left a resident page mapped
SwappedPageBeforeGap ==
    /\ ev.op = "munmap"
    /\ ev.addr = FirstAddr + (UnmapPages - 1) * PAGE_SIZE
    /\ ev.length = PAGE_SIZE + 1
    /\ ev.val = 0
    /\ Calls(ev, "SwapSpace::free_slot") # {}
    /\ \E w \in DOMAIN page_table : page_table[w].present

(***************************************************************************)
(* Properties of Part V                                                    *)
(***************************************************************************)
\* the positions in the log of the call e of the kernel calls named c
XCalls(e, c) == {i \in 1 .. Len(e.log) : e.log[i].call = c}

\* C34 : an exec that returns -1 leaves pgdir, sz, tf->eip and tf->esp of the
\* process as they were and frees the page directory it made, if it made one,
\* exactly once and nothing else; an exec that returns 0 has given the process
\* the new page directory and called switchuvm before freevm(oldpgdir), its only
\* freevm.
ExecCommitsOrLeaves ==
    [][xev'.op = "exec"
         => IF xev'.ret = -1
            THEN /\ curproc'.pgdir = curproc.pgdir
                 /\ curproc'.sz = curproc.sz
                 /\ curproc'.eip = curproc.eip
                 /\ curproc'.esp = curproc.esp
                 /\ Cardinality(XCalls(xev', "freevm")) = IF xev'.pgdir = 0 THEN 0 ELSE 1
                 /\ \A f \in XCalls(xev', "freevm") : xev'.log[f].arg = xev'.pgdir
                 /\ kpgdirs' = kpgdirs
            ELSE /\ xev'.ret = 0
                 /\ xev'.pgdir # 0
                 /\ xev'.pgdir # curproc.pgdir
                 /\ curproc'.pgdir = xev'.pgdir
                 /\ Cardinality(XCalls(xev', "freevm")) = 1
                 /\ \A f \in XCalls(xev', "freevm") :
                       /\ xev'.log[f].arg = curproc.pgdir
                       /\ \E s \in XCalls(xev', "switchuvm") :
                             s < f /\ xev'.log[s].arg = xev'.pgdir
                 /\ kpgdirs' = {xev'.pgdir}]_vars

\* a process that runs an image exec gave it has called exec again, and the
\* call failed in a copyout, after it had made a page directory and loaded a
\* segment into it
ExecFailedAfterLoad ==
    /\ xev.op = "exec"
    /\ xev.ret = -1
    /\ xev.pgdir # 0
    /\ XCalls(xev, "loaduvm") # {}
    /\ XCalls(xev, "copyout") # {}
    /\ curproc.name = "sh"

\* C35 : in every call of exec there is one begin_op, the first call, and one
\* end_op; the inode is locked by ilock at most once, and exactly when the file
\* was found; each ilock is followed by exactly one iunlockput, which comes
\* before the end_op.
ExecReleasesOnce ==
    xev.op = "exec"
        => /\ XCalls(xev, "begin_op") = {1}
           /\ Cardinality(XCalls(xev, "end_op")) = 1
           /\ Cardinality(XCalls(xev, "ilock")) = IF xev.file = "none" THEN 0 ELSE 1
           /\ Cardinality(XCalls(xev, "iunlockput")) = Cardinality(XCalls(xev, "ilock"))
           /\ \A u \in XCalls(xev, "iunlockput") :
                 /\ \A l \in XCalls(xev, "ilock") : l < u
                 /\ \A e \in XCalls(xev, "end_op") : e = u + 1

\* exec failed after it had loaded the segments and released the inode: the
\* freevm of the label bad comes after the iunlockput and the end_op
ExecFailedAfterRelease ==
    /\ xev.op = "exec"
    /\ xev.ret = -1
    /\ \E u \in XCalls(xev, "iunlockput"), f \in XCalls(xev, "freevm") : u < f
    /\ XCalls(xev, "loaduvm") # {}

====
